---- MODULE Spec2Model ----
(***************************************************************************)
(* A model of the council cluster-membership library: the MemberView and   *)
(* ClusterView merges (cluster/views.rs), the version vector, the failure  *)
(* detector, the gossip destination selection and the actor loop (lib.rs). *)
(***************************************************************************)
EXTENDS Integers, Sequences, FiniteSets, TLC

VARIABLES
    cluster,        \* the Cluster owned by the main_thread task of each node
    network,        \* the exchanges started by gossip that their destination has not served yet
    now,            \* the clock read by Instant::now()
    panicked,       \* whether a node's main_thread task has panicked
    ticks,          \* the number of gossip ticks so far
    merged,         \* for each node, the (member, version) pairs its view has held
    leader_views,        \* the number of views received from the external leader
    qc,             \* the state of a property test of cluster/views.rs: its inputs and its two results
    actor           \* the channels and the handle of the Council instance whose runtime is modelled

(***************************************************************************)
(* Bounds of the model.                                                    *)
(***************************************************************************)
\* the versions drawn by the property tests are 0..MaxVersion and the largest u16
MaxVersion == 1
\* the heartbeats drawn by the property tests are 0..MaxHeartbeat
MaxHeartbeat == 1
\* the gossip intervals of all nodes tick at most MaxTicks times
MaxTicks == 3
\* the clock advances at most MaxTime times
MaxTime == 1
\* the external leader sends at most MaxLeaderViews views
MaxLeaderViews == 1
\* the peers call at most MaxRequests exchange RPCs of a node whose runtime is modelled
MaxRequests == 3
\* at most MaxWaiting exchange RPCs arrive beyond the capacity of the inbox
MaxWaiting == 2
\* at most MaxSubscribers event streams are created
MaxSubscribers == 1

(***************************************************************************)
(* Program constants.                                                      *)
(***************************************************************************)
\* node.rs: #[repr(u8)] enum NodeStatus, ordered by its discriminant (derive Ord)
Joining == 1
Up == 2
Leaving == 3
Exiting == 4
Down == 5
NodeStatus == {Joining, Up, Leaving, Exiting, Down}

\* views.rs: `pub version: u16`; a release build wraps `version += 1` modulo 2^16
U16Modulus == 65536
U16Max == U16Modulus - 1

(***************************************************************************)
(* Option<T>: None is the empty tuple, Some(x) the one-element tuple.      *)
(***************************************************************************)
None == << >>
Some(x) == << x >>
IsSome(o) == o # None
Unwrap(o) == o[1]

Max(x, y) == IF x >= y THEN x ELSE y

(***************************************************************************)
(* node.rs: NodeId. unique_id is the hash of the advertised URL, so the    *)
(* model uses the same small number for a host's unique_id and its URL.    *)
(***************************************************************************)
MkNodeId(u, g) == [unique_id |-> u, generation |-> g]

MkState(st, v, hb) == [node_status |-> st, version |-> v, heartbeat |-> hb]
MkMemberView(id, addr, state) == [id |-> id, advertised_addr |-> addr, state |-> state]

(***************************************************************************)
(* views.rs: MemberView::merge. `self_` is the resident view, the result   *)
(* is what `self` holds after the call.                                    *)
(***************************************************************************)
merge(self_, incoming) ==
    IF incoming.id.generation > self_.id.generation
    THEN incoming
    ELSE IF incoming.id.generation = self_.id.generation
    THEN IF self_.state = None /\ IsSome(incoming.state)
         THEN [self_ EXCEPT !.state = incoming.state]
         ELSE IF IsSome(self_.state) /\ IsSome(incoming.state)
         THEN LET self_state == Unwrap(self_.state)
                  incoming_state == Unwrap(incoming.state)
                  hb == Max(self_state.heartbeat, incoming_state.heartbeat)
              IN  IF incoming_state.version > self_state.version
                  THEN [self_ EXCEPT !.state =
                            Some(MkState(incoming_state.node_status, incoming_state.version, hb))]
                  ELSE IF incoming_state.version < self_state.version
                  THEN [self_ EXCEPT !.state =
                            Some(MkState(self_state.node_status, self_state.version, hb))]
                  ELSE IF self_state.node_status # incoming_state.node_status
                  THEN [self_ EXCEPT !.state =
                            Some(MkState(Max(self_state.node_status, incoming_state.node_status),
                                         (self_state.version + 1) % U16Modulus,
                                         hb))]
                  ELSE self_
         ELSE self_
    ELSE self_

(***************************************************************************)
(* HashMap<K, V>: a function whose DOMAIN is the key set.                  *)
(***************************************************************************)
EmptyMap == << >>
\* HashMap::insert
Insert(m, k, v) == [x \in (DOMAIN m) \cup {k} |-> IF x = k THEN v ELSE m[x]]
\* `state.as_ref().map_or(0, |s| s.version)` and `... s.heartbeat`
version_or_0(member) == IF IsSome(member.state) THEN Unwrap(member.state).version ELSE 0
heartbeat_or_0(member) == IF IsSome(member.state) THEN Unwrap(member.state).heartbeat ELSE 0

(***************************************************************************)
(* views.rs: ClusterView and ClusterView::merge_partial_cluster_view.      *)
(* merge_one is the body of its loop for one member of the received view.  *)
(***************************************************************************)
MkClusterView(km, vv, hbs) == [known_members |-> km, version_vector |-> vv, heartbeats |-> hbs]

\* the body of the loop, had it kept no member but the one it merges
merge_one_keeping_no_other(cv, other_node) ==
    MkClusterView(Insert(EmptyMap, other_node.id, other_node),
                  Insert(cv.version_vector, other_node.id, version_or_0(other_node)),
                  Insert(cv.heartbeats, other_node.id, heartbeat_or_0(other_node)))

merge_one(cv, other_node) ==
    IF other_node.id \in DOMAIN cv.known_members
    THEN LET existing_member_view == merge(cv.known_members[other_node.id], other_node)
         IN  MkClusterView(
                 Insert(cv.known_members, other_node.id, existing_member_view),
                 Insert(cv.version_vector, existing_member_view.id, version_or_0(existing_member_view)),
                 Insert(cv.heartbeats, existing_member_view.id, heartbeat_or_0(existing_member_view)))
    ELSE MkClusterView(
                 Insert(cv.known_members, other_node.id, other_node),
                 Insert(cv.version_vector, other_node.id, version_or_0(other_node)),
                 Insert(cv.heartbeats, other_node.id, heartbeat_or_0(other_node)))

\* the loop `for (_, other_node) in other_view.members`, over the keys not yet visited
RECURSIVE merge_members(_, _, _)
merge_members(cv, members, todo) ==
    IF todo = {}
    THEN cv
    ELSE LET k == CHOOSE x \in todo : TRUE
         IN  merge_members(merge_one(cv, members[k]), members, todo \ {k})

merge_partial_cluster_view(cv, other_view) ==
    merge_members(cv, other_view.members, DOMAIN other_view.members)


\* views.rs: PartialClusterView
MkPartialClusterView(id, members) == [this_node_id |-> id, members |-> members]

\* no property test is running
QcIdle == [test |-> "none"]

\* no runtime is modelled: no channel holds anything and no handle exists
ActorIdle ==
    [inbox |-> << >>, waiting |-> << >>, unavailable |-> 0, requests |-> {}, budget |-> 0,
     receivers |-> 0, events |-> << >>, dropped |-> FALSE]

\* record_version, had it overwritten the recorded version
record_version_overwriting(versions, node_id, version) ==
    Insert(versions, node_id, version)

(***************************************************************************)
(* version_vector.rs: VersionVector::record_version and                    *)
(* VersionVectorOffset::of (the set behind_lhs).                           *)
(***************************************************************************)
record_version(versions, node_id, version) ==
    IF node_id \in DOMAIN versions
    THEN Insert(versions, node_id, Max(versions[node_id], version))
    ELSE Insert(versions, node_id, version)

behind_lhs(lhs, rhs) ==
    {node_id \in DOMAIN lhs : node_id \notin DOMAIN rhs \/ rhs[node_id] < lhs[node_id]}

(***************************************************************************)
(* VersionVector::merge, which convergence_monitor.rs calls and            *)
(* version_vector.rs does not define: for every entry of `other`,          *)
(* record_version (design document, section 4.1).                          *)
(***************************************************************************)
RECURSIVE version_vector_merge_entries(_, _, _)
version_vector_merge_entries(versions, other, todo) ==
    IF todo = {}
    THEN versions
    ELSE LET k == CHOOSE x \in todo : TRUE
         IN  version_vector_merge_entries(record_version(versions, k, other[k]), other, todo \ {k})

version_vector_merge(versions, other) ==
    version_vector_merge_entries(versions, other, DOMAIN other)

(***************************************************************************)
(* convergence_monitor.rs: observed_states_per_node, a map from a peer to  *)
(* the version vector that peer is known to hold. lib.rs calls             *)
(* record_version(peer, member, version) for every member a peer reports.  *)
(***************************************************************************)
monitor_record_version(observed_states_per_node, node_id, member_id, version) ==
    Insert(observed_states_per_node, node_id,
           record_version(IF node_id \in DOMAIN observed_states_per_node
                          THEN observed_states_per_node[node_id]
                          ELSE EmptyMap,
                          member_id, version))

(***************************************************************************)
(* failure_detector.rs. An Instant or a Duration is a whole number of      *)
(* units; the clock advances ClockStep units at a time, a step that the    *)
(* heartbeat counts of the model divide.                                   *)
(***************************************************************************)
ClockStep == 60

\* failure_detector.rs: HEARTBEAT_INTERVALS_WINDOW_SIZE
HEARTBEAT_INTERVALS_WINDOW_SIZE == 100

RECURSIVE Sum(_)
Sum(seq) == IF seq = << >> THEN 0 ELSE Head(seq) + Sum(Tail(seq))

(***************************************************************************)
(* The heartbeats of the failure detector are u64. A u64 is held as its    *)
(* two 32-bit words, its value being high * 2^32 + low: the integers of    *)
(* the checker end below 2^32. AsU64 is the u64 of a heartbeat of a view,  *)
(* which the bounded runs keep small.                                      *)
(***************************************************************************)
MkU64(high, low) == [high |-> high, low |-> low]
AsU64(h) == MkU64(0, h)

\* `a < b` on two u64
u64_less(a, b) == a.high < b.high \/ (a.high = b.high /\ a.low < b.low)

\* FailureDetectorMember::new
new_member(last_heartbeat, at) ==
    [last_heartbeat |-> last_heartbeat,
     last_heartbeat_received_at |-> at,
     heartbeats_intervals |-> << >>,
     heartbeats_min_interval |-> None,
     heartbeats_max_interval |-> None]

\* FailureDetectorMember::refresh_stats: mean and standard deviation are present
\* when the window is not empty
has_stats(member) == Len(member.heartbeats_intervals) > 0

\* FailureDetectorMember::refresh_stats: the standard deviation is zero when all
\* the intervals of the window are equal
std_dev_is_zero(member) ==
    \A i \in 1..Len(member.heartbeats_intervals) :
        member.heartbeats_intervals[i] = member.heartbeats_intervals[1]

\* insert_interval, had it never popped the front of the window
insert_interval_without_eviction(member, interval) ==
    [member EXCEPT
        !.heartbeats_intervals = Append(member.heartbeats_intervals, interval),
        !.heartbeats_min_interval =
            IF member.heartbeats_min_interval = None THEN Some(interval)
            ELSE IF interval < Unwrap(member.heartbeats_min_interval) THEN Some(interval)
            ELSE member.heartbeats_min_interval,
        !.heartbeats_max_interval =
            IF member.heartbeats_max_interval = None THEN Some(interval)
            ELSE Some(Max(Unwrap(member.heartbeats_max_interval), interval))]

\* FailureDetectorMember::insert_interval
insert_interval(member, interval) ==
    LET kept == IF Len(member.heartbeats_intervals) = HEARTBEAT_INTERVALS_WINDOW_SIZE
                THEN Tail(member.heartbeats_intervals)
                ELSE member.heartbeats_intervals
    IN  [member EXCEPT
            !.heartbeats_intervals = Append(kept, interval),
            !.heartbeats_min_interval =
                IF member.heartbeats_min_interval = None THEN Some(interval)
                ELSE IF interval < Unwrap(member.heartbeats_min_interval) THEN Some(interval)
                ELSE member.heartbeats_min_interval,
            !.heartbeats_max_interval =
                IF member.heartbeats_max_interval = None THEN Some(interval)
                ELSE Some(Max(Unwrap(member.heartbeats_max_interval), interval))]

\* FailureDetectorMember::record_heartbeat, `for _ in 0..count { self.insert_interval(..) }`:
\* count calls in a row, taken as the first half of them and then the rest. The
\* member after the first half is bound as a value before the rest is applied, which
\* keeps the evaluation shallow for a count above the size of the window.
RECURSIVE insert_intervals(_, _, _)
insert_intervals(member, interval, count) ==
    IF count = 0 THEN member
    ELSE IF count = 1 THEN insert_interval(member, interval)
    ELSE CHOOSE m \in {insert_intervals(first, interval, count - count \div 2) :
                          first \in {insert_intervals(member, interval, count \div 2)}} : TRUE

\* FailureDetectorMember::record_heartbeat: `(last_heartbeat - self.last_heartbeat) as u32`
\* keeps the low 32 bits of the difference of the two u64. It is called with
\* last_heartbeat above the stored one; the low word of the difference is the
\* difference of the low words when that takes no borrow from the high word, as with
\* every pair of heartbeats of this module.
received_heartbeats_since_last_record(member, last_heartbeat) ==
    last_heartbeat.low - member.last_heartbeat.low

\* FailureDetectorMember::record_heartbeat: `elapsed_time / 0u32` panics, in every build
member_record_heartbeat_panics(member, last_heartbeat) ==
    received_heartbeats_since_last_record(member, last_heartbeat) = 0

\* FailureDetectorMember::record_heartbeat, called with last_heartbeat above the stored
\* one and a count that is not zero
member_record_heartbeat(member, last_heartbeat, at) ==
    LET elapsed_time == at - member.last_heartbeat_received_at
        count == received_heartbeats_since_last_record(member, last_heartbeat)
        mean_heartbeat_time == elapsed_time \div count
        m == insert_intervals(member, mean_heartbeat_time, count)
    IN  [m EXCEPT !.last_heartbeat = last_heartbeat, !.last_heartbeat_received_at = at]

\* record_heartbeat, had it taken a heartbeat that is not newer for a sign of life
fd_record_heartbeat_refreshing(members, node_id, last_heartbeat, at) ==
    IF node_id \notin DOMAIN members
    THEN Insert(members, node_id, new_member(last_heartbeat, at))
    ELSE IF u64_less(members[node_id].last_heartbeat, last_heartbeat)
    THEN Insert(members, node_id, member_record_heartbeat(members[node_id], last_heartbeat, at))
    ELSE Insert(members, node_id, [members[node_id] EXCEPT !.last_heartbeat_received_at = at])

\* FailureDetector::record_heartbeat (members is the map of the detector)
fd_record_heartbeat(members, node_id, last_heartbeat, at) ==
    IF node_id \notin DOMAIN members
    THEN Insert(members, node_id, new_member(last_heartbeat, at))
    ELSE IF u64_less(members[node_id].last_heartbeat, last_heartbeat)
    THEN Insert(members, node_id, member_record_heartbeat(members[node_id], last_heartbeat, at))
    ELSE members

\* FailureDetector::record_heartbeat: the call panics in FailureDetectorMember::record_heartbeat
fd_record_heartbeat_panics(members, node_id, last_heartbeat) ==
    /\ node_id \in DOMAIN members
    /\ u64_less(members[node_id].last_heartbeat, last_heartbeat)
    /\ member_record_heartbeat_panics(members[node_id], last_heartbeat)

(***************************************************************************)
(* FailureDetectorMember::phi, as the class of the f64 it returns. With    *)
(* x = at - last_heartbeat_received_at, the code computes                  *)
(*   y = 0.5 * (mean - x) / (std_dev * sqrt 2),  phi = 1 - log10(y).       *)
(*   mean > x: y > 0 (y = +inf when std_dev = 0), and phi is below the     *)
(*             threshold 8.0 unless y <= 1e-7, which the whole units of    *)
(*             the model never give: "below";                              *)
(*   mean = x: std_dev > 0 gives y = 0 and phi = +inf: "above";            *)
(*             std_dev = 0 gives y = 0/0: "nan";                           *)
(*   mean < x: y < 0 and log10(y) is NaN: "nan".                           *)
(* A NaN compares false with the threshold both ways. The mean is the sum  *)
(* of the window over its length, compared here without rounding.          *)
(***************************************************************************)
phi(member, at) ==
    IF ~has_stats(member)
    THEN None
    ELSE LET x == at - member.last_heartbeat_received_at
             sum == Sum(member.heartbeats_intervals)
             count == Len(member.heartbeats_intervals)
         IN  IF sum > x * count THEN Some("below")
             ELSE IF sum = x * count /\ ~std_dev_is_zero(member) THEN Some("above")
             ELSE Some("nan")

\* is_live, had it compared with `phi >= phi_treshold`
is_live_at_or_above_treshold(members, node_id, at) ==
    /\ node_id \in DOMAIN members
    /\ phi(members[node_id], at) = Some("above")

\* FailureDetector::is_live: `phi < phi_treshold`, false when there is no phi
is_live(members, node_id, at) ==
    /\ node_id \in DOMAIN members
    /\ phi(members[node_id], at) = Some("below")

\* FailureDetector::live_members: `phi(now).unwrap_or(0.0) < phi_treshold`, so a
\* member without a phi counts as 0.0
live_members(members, at) ==
    {node_id \in DOMAIN members :
        LET p == phi(members[node_id], at)
        IN  p = None \/ p = Some("below")}

\* FailureDetector::unreachable_members: `phi(now).unwrap_or(0.0) >= phi_treshold`
unreachable_members(members, at) ==
    {node_id \in DOMAIN members : phi(members[node_id], at) = Some("above")}

(***************************************************************************)
(* views.rs: ClusterView::record_heartbeat. `entry(node_id).or_default()`  *)
(* creates the heartbeats entry when there is none.                        *)
(***************************************************************************)
record_heartbeat(cv, node_id, heartbeat) ==
    LET existing_heartbeat == IF node_id \in DOMAIN cv.heartbeats THEN cv.heartbeats[node_id] ELSE 0
        hbs == Insert(cv.heartbeats, node_id, Max(heartbeat, existing_heartbeat))
    IN  IF node_id \in DOMAIN cv.known_members /\ IsSome(cv.known_members[node_id].state)
        THEN LET member == cv.known_members[node_id]
                 state == Unwrap(member.state)
             IN  MkClusterView(
                     Insert(cv.known_members, node_id,
                            [member EXCEPT !.state =
                                Some([state EXCEPT !.heartbeat = Max(heartbeat, state.heartbeat)])]),
                     cv.version_vector,
                     hbs)
        ELSE MkClusterView(cv.known_members, cv.version_vector, hbs)

\* this_node_initial_view, had it left the state of the node's own view absent
this_node_initial_view_without_state(id, advertised_url) ==
    MkMemberView(id, advertised_url, None)

\* views.rs: MemberView::this_node_initial_view
this_node_initial_view(id, advertised_url) ==
    MkMemberView(id, advertised_url, Some(MkState(Joining, 1, 0)))

\* views.rs: ClusterView::initial
initial(this_node_id, this_node_advertised_url) ==
    LET this_node == this_node_initial_view(this_node_id, this_node_advertised_url)
    IN  MkClusterView(Insert(EmptyMap, this_node_id, this_node),
                      Insert(EmptyMap, this_node_id, version_or_0(this_node)),
                      Insert(EmptyMap, this_node.id, heartbeat_or_0(this_node)))

(***************************************************************************)
(* builder.rs: CouncilBuilder::build. The Cluster a node starts with; the  *)
(* configured peer URLs lose the node's own URL. lib.rs and                *)
(* gossip_destinations.rs also use cluster.convergence_monitor, which      *)
(* starts empty (ConvergenceMonitor::new).                                 *)
(***************************************************************************)
build(this_node_id, this_node_advertised_url, configured_peer_nodes) ==
    LET peer_nodes == {u \in configured_peer_nodes : u # this_node_advertised_url}
    IN  [this_node_id |-> this_node_id,
         this_advertised_url |-> this_node_advertised_url,
         cluster_view |-> initial(this_node_id, this_node_advertised_url),
         peer_nodes |-> peer_nodes,
         unknwon_peer_nodes |-> peer_nodes,
         convergence_monitor |-> EmptyMap,
         failure_detector |-> EmptyMap]

(***************************************************************************)
(* cluster.rs: Cluster::increment_own_heartbeat. It panics when the node's *)
(* own member is missing or has no state; can_increment_own_heartbeat is   *)
(* the condition under which it does not.                                  *)
(***************************************************************************)
can_increment_own_heartbeat(c) ==
    /\ c.this_node_id \in DOMAIN c.cluster_view.known_members
    /\ IsSome(c.cluster_view.known_members[c.this_node_id].state)

\* increment_own_heartbeat, had it left cluster_view.heartbeats alone
increment_own_heartbeat_of_member_only(c) ==
    LET cv == c.cluster_view
        member == cv.known_members[c.this_node_id]
        state == Unwrap(member.state)
    IN  [c EXCEPT !.cluster_view =
            MkClusterView(
                Insert(cv.known_members, c.this_node_id,
                       [member EXCEPT !.state = Some([state EXCEPT !.heartbeat = state.heartbeat + 1])]),
                cv.version_vector,
                cv.heartbeats)]

\* increment_own_heartbeat, had it left the heartbeat of the node's own state alone
increment_own_heartbeat_of_projection_only(c) ==
    LET cv == c.cluster_view
    IN  [c EXCEPT !.cluster_view =
            MkClusterView(
                cv.known_members,
                cv.version_vector,
                IF c.this_node_id \in DOMAIN cv.heartbeats
                THEN Insert(cv.heartbeats, c.this_node_id, cv.heartbeats[c.this_node_id] + 1)
                ELSE cv.heartbeats)]

increment_own_heartbeat(c) ==
    LET cv == c.cluster_view
        hbs == IF c.this_node_id \in DOMAIN cv.heartbeats
               THEN Insert(cv.heartbeats, c.this_node_id, cv.heartbeats[c.this_node_id] + 1)
               ELSE cv.heartbeats
        member == cv.known_members[c.this_node_id]
        state == Unwrap(member.state)
    IN  [c EXCEPT !.cluster_view =
            MkClusterView(
                Insert(cv.known_members, c.this_node_id,
                       [member EXCEPT !.state = Some([state EXCEPT !.heartbeat = state.heartbeat + 1])]),
                cv.version_vector,
                hbs)]

\* collect_partial_cluster_view_of_newer_nodes, had it left out the members that
\* are not the node itself
collect_partial_cluster_view_of_this_node(c, node_id) ==
    IF node_id \notin DOMAIN c.convergence_monitor
    THEN None
    ELSE LET rhs == c.convergence_monitor[node_id]
             offset == behind_lhs(c.cluster_view.version_vector, rhs)
             dest == {k \in offset : k = c.this_node_id /\ k \in DOMAIN c.cluster_view.known_members}
         IN  IF dest = {}
             THEN None
             ELSE Some(MkPartialClusterView(c.this_node_id,
                                            [k \in dest |-> c.cluster_view.known_members[k]]))

(***************************************************************************)
(* gossip_destinations.rs: collect_partial_cluster_view_of_newer_nodes.    *)
(***************************************************************************)
collect_partial_cluster_view_of_newer_nodes(c, node_id) ==
    IF node_id \notin DOMAIN c.convergence_monitor
    THEN None
    ELSE LET rhs == c.convergence_monitor[node_id]
             offset == behind_lhs(c.cluster_view.version_vector, rhs)
             dest == {k \in offset : k \in DOMAIN c.cluster_view.known_members}
         IN  IF dest = {}
             THEN None
             ELSE Some(MkPartialClusterView(c.this_node_id,
                                            [k \in dest |-> c.cluster_view.known_members[k]]))

\* gossip_destinations.rs: GOSSIP_DESTINATIONS_SAMPLE_SIZE
GOSSIP_DESTINATIONS_SAMPLE_SIZE == 5

Min(x, y) == IF x <= y THEN x ELSE y

\* the two kinds of exchange a tick starts (lib.rs: the two closures of gossip)
ExchangeClusterViews(url, view) == [kind |-> "cluster_view", url |-> url, body |-> view]
ExchangeHeartbeats(url, heartbeats) == [kind |-> "heartbeats", url |-> url, body |-> heartbeats]

(***************************************************************************)
(* gossip_destinations.rs: select_gossip_destinations, as the set of the   *)
(* selections one call can make. The two loops walk a HashSet and a        *)
(* HashMap in an arbitrary order and stop at the sample size, and          *)
(* choose_multiple draws at random: `unknown` is the part of               *)
(* unknwon_peer_nodes the first loop reached, `visited` the members the    *)
(* second loop reached, `exchanged` those of them that are sent a partial  *)
(* cluster view, `chosen` the heartbeat destinations drawn.                *)
(***************************************************************************)
\* the selection, had neither loop stopped at the sample size and had every
\* heartbeat destination been drawn
gossip_selections_without_limit(c) ==
    LET others == {k \in DOMAIN c.cluster_view.known_members : k # c.this_node_id}
        exchanged == {k \in others : IsSome(collect_partial_cluster_view_of_newer_nodes(c, k))}
    IN  { [unknown |-> c.unknwon_peer_nodes,
           exchanged |-> exchanged,
           chosen |-> {c.cluster_view.known_members[k].advertised_addr : k \in others \ exchanged}] }

gossip_selections(c) ==
    LET K == GOSSIP_DESTINATIONS_SAMPLE_SIZE
        others == {k \in DOMAIN c.cluster_view.known_members : k # c.this_node_id}
    IN  UNION {
          UNION {
            LET exchanged == {k \in visited :
                                 IsSome(collect_partial_cluster_view_of_newer_nodes(c, k))}
                heartbeats_destinations ==
                    {c.cluster_view.known_members[k].advertised_addr : k \in visited \ exchanged}
                cluster_view_exchanges == Cardinality(unknown) + Cardinality(exchanged)
                heartbeats_exchanges == K - cluster_view_exchanges
            IN  IF /\ cluster_view_exchanges <= K
                   /\ (visited = others \/ cluster_view_exchanges = K)
                THEN { [unknown |-> unknown, exchanged |-> exchanged, chosen |-> chosen] :
                         chosen \in {d \in SUBSET heartbeats_destinations :
                                        Cardinality(d) = Min(heartbeats_exchanges,
                                                             Cardinality(heartbeats_destinations))} }
                ELSE {}
            : visited \in SUBSET others }
          : unknown \in {u \in SUBSET c.unknwon_peer_nodes :
                            Cardinality(u) = Min(K, Cardinality(c.unknwon_peer_nodes))} }

\* the number of calls of exchange_cluster_views and exchange_heartbeats of a selection
exchange_count(selection) ==
    Cardinality(selection.unknown) + Cardinality(selection.exchanged)
        + Cardinality(selection.chosen)

\* the exchanges of a selection: the full view to each unknown peer, a partial view
\* to each lagging member, the heartbeats to each drawn destination
exchanges_of(c, selection) ==
    LET full_view == MkPartialClusterView(c.this_node_id, c.cluster_view.known_members)
    IN  {ExchangeClusterViews(url, full_view) : url \in selection.unknown}
        \cup {ExchangeClusterViews(
                  c.cluster_view.known_members[k].advertised_addr,
                  Unwrap(collect_partial_cluster_view_of_newer_nodes(c, k))) :
                  k \in selection.exchanged}
        \cup {ExchangeHeartbeats(dest, c.cluster_view.heartbeats) : dest \in selection.chosen}

\* the sets of exchanges one call of select_gossip_destinations can start
select_gossip_destinations(c) ==
    {exchanges_of(c, selection) : selection \in gossip_selections(c)}

(***************************************************************************)
(* lib.rs: handle_incoming_cluster_view. handle_member is the body of its  *)
(* loop for one member; `at` is Instant::now(). The call                   *)
(* cluster_view.merge_member_view(member) merges one member as the loop    *)
(* of merge_partial_cluster_view does. The members have distinct ids, so   *)
(* the order of the loop does not show in the result.                      *)
(***************************************************************************)
\* the body of the loop, had it removed the URL of every member of the view
handle_member_removing_every_url(c, incoming_node_id, member, at) ==
    IF member.id = c.this_node_id
    THEN c
    ELSE LET c1 == [c EXCEPT !.unknwon_peer_nodes = @ \ {member.advertised_addr}]
             c2 == IF IsSome(member.state)
                   THEN [c1 EXCEPT
                            !.convergence_monitor =
                                monitor_record_version(@, incoming_node_id, member.id,
                                                       Unwrap(member.state).version),
                            !.failure_detector =
                                fd_record_heartbeat(@, member.id, AsU64(Unwrap(member.state).heartbeat), at)]
                   ELSE c1
         IN  [c2 EXCEPT !.cluster_view = merge_one(@, member)]

handle_member(c, incoming_node_id, member, at) ==
    IF member.id = c.this_node_id
    THEN c
    ELSE LET c1 == IF member.id = incoming_node_id
                   THEN [c EXCEPT !.unknwon_peer_nodes = @ \ {member.advertised_addr}]
                   ELSE c
             c2 == IF IsSome(member.state)
                   THEN [c1 EXCEPT
                            !.convergence_monitor =
                                monitor_record_version(@, incoming_node_id, member.id,
                                                       Unwrap(member.state).version),
                            !.failure_detector =
                                fd_record_heartbeat(@, member.id, AsU64(Unwrap(member.state).heartbeat), at)]
                   ELSE c1
         IN  [c2 EXCEPT !.cluster_view = merge_one(@, member)]

RECURSIVE handle_members(_, _, _, _, _)
handle_members(c, incoming_node_id, members, todo, at) ==
    IF todo = {}
    THEN c
    ELSE LET k == CHOOSE x \in todo : TRUE
         IN  handle_members(handle_member(c, incoming_node_id, members[k], at),
                            incoming_node_id, members, todo \ {k}, at)

handle_incoming_cluster_view(c, incoming_cluster_view, at) ==
    handle_members(c, incoming_cluster_view.this_node_id, incoming_cluster_view.members,
                   DOMAIN incoming_cluster_view.members, at)

(***************************************************************************)
(* lib.rs: handle_incoming_heartbeat_message.                              *)
(***************************************************************************)
\* the body of the loop, had it not skipped the entry of the node itself
handle_heartbeat_of_every_node(c, node_id, heartbeat, at) ==
    [c EXCEPT !.cluster_view = record_heartbeat(@, node_id, heartbeat),
              !.failure_detector = fd_record_heartbeat(@, node_id, AsU64(heartbeat), at)]

handle_heartbeat(c, node_id, heartbeat, at) ==
    IF node_id # c.this_node_id
    THEN [c EXCEPT !.cluster_view = record_heartbeat(@, node_id, heartbeat),
                   !.failure_detector = fd_record_heartbeat(@, node_id, AsU64(heartbeat), at)]
    ELSE c

RECURSIVE handle_heartbeats(_, _, _, _)
handle_heartbeats(c, incoming_message, todo, at) ==
    IF todo = {}
    THEN c
    ELSE LET k == CHOOSE x \in todo : TRUE
         IN  handle_heartbeats(handle_heartbeat(c, k, incoming_message[k], at),
                               incoming_message, todo \ {k}, at)

handle_incoming_heartbeat_message(c, incoming_message, at) ==
    handle_heartbeats(c, incoming_message, DOMAIN incoming_message, at)

(***************************************************************************)
(* The cluster: three Council instances. A node's URL is its number, and   *)
(* its NodeId has that number as unique_id. The configured peers form a    *)
(* ring: node 1 is given node 3 (and its own URL), node 2 is given node 1, *)
(* node 3 is given node 2.                                                 *)
(***************************************************************************)
Nodes == {1, 2, 3}
Generation == 1
NodeIdOf(n) == MkNodeId(n, Generation)
ConfiguredPeerNodes == [n \in Nodes |-> IF n = 1 THEN {1, 3} ELSE IF n = 2 THEN {1} ELSE {2}]

Init ==
    /\ cluster = [n \in Nodes |-> build(NodeIdOf(n), n, ConfiguredPeerNodes[n])]
    /\ network = {}
    /\ now = 0
    /\ panicked = [n \in Nodes |-> FALSE]
    /\ ticks = 0
    /\ merged = EmptyMap
    /\ leader_views = 0
    /\ qc = QcIdle
    /\ actor = ActorIdle

(***************************************************************************)
(* lib.rs: main_thread, the branch of the gossip interval: the node        *)
(* increments its heartbeat and starts its exchanges. The task stops for   *)
(* good when increment_own_heartbeat panics. An exchange with a URL at     *)
(* which no node listens fails at once.                                    *)
(***************************************************************************)
gossip_interval_tick(n) ==
    /\ IF can_increment_own_heartbeat(cluster[n])
       THEN /\ \E exchanges \in select_gossip_destinations(increment_own_heartbeat(cluster[n])) :
                 network' = network \cup {e \in exchanges : e.url \in DOMAIN cluster}
            /\ cluster' = [cluster EXCEPT ![n] = increment_own_heartbeat(cluster[n])]
            /\ UNCHANGED panicked
       ELSE /\ panicked' = [panicked EXCEPT ![n] = TRUE]
            /\ UNCHANGED << cluster, network >>
    /\ UNCHANGED << now, merged, leader_views, qc, actor >>

\* the gossip interval of node n ticks, at most MaxTicks times over all nodes
Tick(n) ==
    /\ ~panicked[n]
    /\ ticks < MaxTicks
    /\ ticks' = ticks + 1
    /\ gossip_interval_tick(n)

(***************************************************************************)
(* grpc/server.rs: exchange_cluster_views, then lib.rs: main_thread takes  *)
(* the ReconcileClusterView message and handles it. The reply goes back to *)
(* the caller's task, whose `message_sender.send(..)` in lib.rs: gossip is *)
(* never awaited, so the reply never reaches the caller's cluster.         *)
(***************************************************************************)
ReconcileClusterView(n, m) ==
    /\ m \in network
    /\ m.kind = "cluster_view"
    /\ m.url = n
    /\ ~panicked[n]
    /\ network' = network \ {m}
    /\ cluster' = [cluster EXCEPT ![n] = handle_incoming_cluster_view(cluster[n], m.body, now)]
    /\ UNCHANGED << now, panicked, ticks, merged, leader_views, qc, actor >>

\* grpc/server.rs: exchange_heartbeats, then lib.rs: main_thread takes the
\* ReconcileHeartbeats message and handles it
ReconcileHeartbeats(n, m) ==
    /\ m \in network
    /\ m.kind = "heartbeats"
    /\ m.url = n
    /\ ~panicked[n]
    /\ network' = network \ {m}
    /\ cluster' = [cluster EXCEPT ![n] = handle_incoming_heartbeat_message(cluster[n], m.body, now)]
    /\ UNCHANGED << now, panicked, ticks, merged, leader_views, qc, actor >>

\* lib.rs: gossip, `if let Ok(res) = client.exchange_..(..).await`: an exchange
\* that fails is dropped
ExchangeFails(m) ==
    /\ m \in network
    /\ network' = network \ {m}
    /\ UNCHANGED << cluster, now, panicked, ticks, merged, leader_views, qc, actor >>

\* Instant::now() moves on
TimePasses ==
    /\ now < MaxTime * ClockStep
    /\ now' = now + ClockStep
    /\ UNCHANGED << cluster, network, panicked, ticks, merged, leader_views, qc, actor >>

Next ==
    \/ \E n \in Nodes : Tick(n)
    \/ \E n \in Nodes, m \in network : ReconcileClusterView(n, m)
    \/ \E n \in Nodes, m \in network : ReconcileHeartbeats(n, m)
    \/ \E m \in network : ExchangeFails(m)
    \/ TimePasses

\* the same cluster over a run that is one tick longer
LongTick(n) ==
    /\ ~panicked[n]
    /\ ticks < MaxTicks + 1
    /\ ticks' = ticks + 1
    /\ gossip_interval_tick(n)

LongNext ==
    \/ \E n \in Nodes : LongTick(n)
    \/ \E n \in Nodes, m \in network : ReconcileClusterView(n, m)
    \/ \E n \in Nodes, m \in network : ReconcileHeartbeats(n, m)
    \/ \E m \in network : ExchangeFails(m)
    \/ TimePasses

(***************************************************************************)
(* The same three nodes, where node 1 is configured with six peer URLs:    *)
(* those of nodes 2 and 3 and four at which no node listens.               *)
(***************************************************************************)
FanoutPeerNodes == [n \in Nodes |-> IF n = 1 THEN {2, 3, 6, 7, 8, 9} ELSE {1}]

FanoutInit ==
    /\ cluster = [n \in Nodes |-> build(NodeIdOf(n), n, FanoutPeerNodes[n])]
    /\ network = {}
    /\ now = 0
    /\ panicked = [n \in Nodes |-> FALSE]
    /\ ticks = 0
    /\ merged = EmptyMap
    /\ leader_views = 0
    /\ qc = QcIdle
    /\ actor = ActorIdle

(***************************************************************************)
(* The same three nodes, with the way back of each exchange: the task that *)
(* lib.rs: gossip spawns for an exchange awaits the response of the RPC.   *)
(* An exchange in `network` is the request on its way to `url` or the      *)
(* response on its way to the caller `from`. The run is short against the  *)
(* clock step: Instant::now() stays the same. An exchange whose request is *)
(* lost leaves the nodes as one whose request is still on its way.         *)
(***************************************************************************)
Request(n, e) ==
    [kind |-> e.kind, url |-> e.url, body |-> e.body, from |-> n, stage |-> "request"]
Response(m, body) ==
    [kind |-> m.kind, url |-> m.url, body |-> body, from |-> m.from, stage |-> "response"]

\* a reply that echoes the id of the incoming view
reconciled_cluster_view_reply_echoing_sender(c, incoming_node_id) ==
    MkPartialClusterView(incoming_node_id, EmptyMap)

\* lib.rs: handle_incoming_cluster_view, `if let Some(reply) = reply`: the partial
\* view sent back to the node that started the exchange

reconciled_cluster_view_reply(c, incoming_node_id) ==
    LET partial_cluster_view_to_send == collect_partial_cluster_view_of_newer_nodes(c, incoming_node_id)
    IN  IF IsSome(partial_cluster_view_to_send)
        THEN Unwrap(partial_cluster_view_to_send)
        ELSE MkPartialClusterView(c.this_node_id, EmptyMap)

\* lib.rs: handle_incoming_heartbeat_message, `if let Some(reply) = reply`
reconciled_heartbeats_reply(c) == c.cluster_view.heartbeats

\* lib.rs: main_thread, the branch of the gossip interval, with the spawned tasks
ResponseTick(n) ==
    /\ ~panicked[n]
    /\ ticks < MaxTicks
    /\ ticks' = ticks + 1
    /\ IF can_increment_own_heartbeat(cluster[n])
       THEN /\ \E exchanges \in select_gossip_destinations(increment_own_heartbeat(cluster[n])) :
                 network' = network \cup {Request(n, e) : e \in {x \in exchanges : x.url \in DOMAIN cluster}}
            /\ cluster' = [cluster EXCEPT ![n] = increment_own_heartbeat(cluster[n])]
            /\ UNCHANGED panicked
       ELSE /\ panicked' = [panicked EXCEPT ![n] = TRUE]
            /\ UNCHANGED << cluster, network >>
    /\ UNCHANGED << now, merged, leader_views, qc, actor >>

\* ServeClusterViews, had the actor awaited the exchanges it started before it took
\* the next message of its inbox
ServeClusterViews_after_own_exchanges(n, m) ==
    /\ m \in network
    /\ m.stage = "request"
    /\ m.kind = "cluster_view"
    /\ m.url = n
    /\ ~panicked[n]
    /\ \A x \in network : x.from # n
    /\ LET c == handle_incoming_cluster_view(cluster[n], m.body, now)
       IN  /\ cluster' = [cluster EXCEPT ![n] = c]
           /\ network' = (network \ {m})
                  \cup {Response(m, reconciled_cluster_view_reply(c, m.body.this_node_id))}
    /\ UNCHANGED << now, panicked, ticks, merged, leader_views, qc, actor >>

\* grpc/server.rs: exchange_cluster_views puts the view with a reply channel in the
\* inbox; lib.rs: main_thread handles it and replies; the RPC returns the reply
ServeClusterViews(n, m) ==
    /\ m \in network
    /\ m.stage = "request"
    /\ m.kind = "cluster_view"
    /\ m.url = n
    /\ ~panicked[n]
    /\ LET c == handle_incoming_cluster_view(cluster[n], m.body, now)
       IN  /\ cluster' = [cluster EXCEPT ![n] = c]
           /\ network' = (network \ {m})
                  \cup {Response(m, reconciled_cluster_view_reply(c, m.body.this_node_id))}
    /\ UNCHANGED << now, panicked, ticks, merged, leader_views, qc, actor >>

\* grpc/server.rs: exchange_heartbeats, handled by lib.rs: main_thread in the same way
ServeHeartbeats(n, m) ==
    /\ m \in network
    /\ m.stage = "request"
    /\ m.kind = "heartbeats"
    /\ m.url = n
    /\ ~panicked[n]
    /\ LET c == handle_incoming_heartbeat_message(cluster[n], m.body, now)
       IN  /\ cluster' = [cluster EXCEPT ![n] = c]
           /\ network' = (network \ {m}) \cup {Response(m, reconciled_heartbeats_reply(c))}
    /\ UNCHANGED << now, panicked, ticks, merged, leader_views, qc, actor >>

\* lib.rs: gossip, the task of the caller: the RPC returns Ok(res), and
\* `let _ = message_sender.send(..)` builds the future of mpsc::Sender::send and
\* drops it without awaiting it, so nothing is sent and the task ends
ExchangeCompletes(m) ==
    /\ m \in network
    /\ m.stage = "response"
    /\ network' = network \ {m}
    /\ UNCHANGED << cluster, now, panicked, ticks, merged, leader_views, qc, actor >>

ResponseNext ==
    \/ \E n \in Nodes : ResponseTick(n)
    \/ \E n \in Nodes, m \in network : ServeClusterViews(n, m)
    \/ \E n \in Nodes, m \in network : ServeHeartbeats(n, m)
    \/ \E m \in network : ExchangeCompletes(m)

\* the same nodes where no exchange completes: every response stays on its way
WaitingNext ==
    \/ \E n \in Nodes : ResponseTick(n)
    \/ \E n \in Nodes, m \in network : ServeClusterViews(n, m)
    \/ \E n \in Nodes, m \in network : ServeHeartbeats(n, m)

(***************************************************************************)
(* Two clusters that are joined. Nodes 1 and 2 are configured with each    *)
(* other, nodes 3 and 4 with each other, and node 1 also with the URL of   *)
(* node 3, which it cannot reach during the first PartitionIntervals       *)
(* gossip intervals. Every node ticks once per gossip interval, the first  *)
(* time at once and in any order with the others, and delivery is reliable *)
(* and fast against the interval: the exchanges that a tick starts are     *)
(* served, in any order, before the next node ticks.                       *)
(***************************************************************************)
PartitionNodes == {1, 2, 3, 4}
PartitionPeerNodes ==
    [n \in PartitionNodes |->
        IF n = 1 THEN {2, 3} ELSE IF n = 2 THEN {1} ELSE IF n = 3 THEN {4} ELSE {3}]
PartitionIntervals == 1
HealingIntervals == 10

\* the exchanges that fail at once: those with a URL at which no node listens and,
\* until the partition heals, those of node 1 with node 3
Unreachable(n, url, at) ==
    \/ url \notin PartitionNodes
    \/ at < PartitionIntervals * ClockStep /\ n = 1 /\ url = 3

PartitionInit ==
    /\ cluster = [n \in PartitionNodes |-> build(NodeIdOf(n), n, PartitionPeerNodes[n])]
    /\ network = {}
    /\ now = 0
    /\ panicked = [n \in PartitionNodes |-> FALSE]
    /\ ticks = 0
    /\ merged = EmptyMap
    /\ leader_views = 0
    /\ qc = QcIdle
    /\ actor = ActorIdle

\* the number of ticks of node n so far: the heartbeat of its own member
TicksOf(n) ==
    Unwrap(cluster[n].cluster_view.known_members[cluster[n].this_node_id].state).heartbeat

\* lib.rs: main_thread, the branch of the gossip interval
PartitionTick(n) ==
    /\ ~panicked[n]
    /\ network = {}
    /\ now = TicksOf(n) * ClockStep
    /\ ticks' = ticks + 1
    /\ IF can_increment_own_heartbeat(cluster[n])
       THEN /\ \E exchanges \in select_gossip_destinations(increment_own_heartbeat(cluster[n])) :
                 network' = network \cup {e \in exchanges : ~Unreachable(n, e.url, now)}
            /\ cluster' = [cluster EXCEPT ![n] = increment_own_heartbeat(cluster[n])]
            /\ UNCHANGED panicked
       ELSE /\ panicked' = [panicked EXCEPT ![n] = TRUE]
            /\ UNCHANGED << cluster, network >>
    /\ UNCHANGED << now, merged, leader_views, qc, actor >>

\* the gossip interval passes once every node has ticked and nothing is on its way
PartitionIntervalPasses ==
    /\ network = {}
    /\ \A n \in PartitionNodes : now < TicksOf(n) * ClockStep
    /\ now < (PartitionIntervals + HealingIntervals - 1) * ClockStep
    /\ now' = now + ClockStep
    /\ UNCHANGED << cluster, network, panicked, ticks, merged, leader_views, qc, actor >>

PartitionNext ==
    \/ \E n \in PartitionNodes : PartitionTick(n)
    \/ \E n \in PartitionNodes, m \in network : ReconcileClusterView(n, m)
    \/ \E n \in PartitionNodes, m \in network : ReconcileHeartbeats(n, m)
    \/ PartitionIntervalPasses

(***************************************************************************)
(* The property tests of views.rs run without a cluster.                   *)
(***************************************************************************)
sysvars == << cluster, network, now, panicked, ticks, merged, leader_views, actor >>

SystemIdle ==
    /\ cluster = EmptyMap
    /\ network = {}
    /\ now = 0
    /\ panicked = EmptyMap
    /\ ticks = 0
    /\ merged = EmptyMap
    /\ leader_views = 0
    /\ actor = ActorIdle

(***************************************************************************)
(* The runtime of one Council instance: builder.rs: build creates the      *)
(* inbox of main_thread (an mpsc channel) and the broadcast channel of the *)
(* cluster events, and spawns main_thread; grpc/server.rs puts the         *)
(* messages of the exchange RPCs into the inbox. The peers of the node are *)
(* its environment: their RPCs arrive, and the exchanges the node starts   *)
(* with them are not answered.                                             *)
(***************************************************************************)
\* builder.rs: mpsc::channel(20)
InboxCapacity == 20

ActorNode == 1
ActorPeerNodes == {2, 3}

\* the messages of the exchange RPCs that the peers call: node 2 sends its views of
\* node 3, and its heartbeat
ActorClusterViews ==
    {MkPartialClusterView(NodeIdOf(2),
         Insert(EmptyMap, NodeIdOf(3), MkMemberView(NodeIdOf(3), 3, Some(MkState(st, 0, 0))))) :
             st \in {Joining, Up}}
ActorHeartbeats == Insert(EmptyMap, NodeIdOf(2), 1)
ActorRequests ==
    {ExchangeClusterViews(ActorNode, view) : view \in ActorClusterViews}
        \cup {ExchangeHeartbeats(ActorNode, ActorHeartbeats)}

ActorStart(requests, budget) ==
    /\ cluster = [n \in {ActorNode} |-> build(NodeIdOf(n), n, ActorPeerNodes)]
    /\ network = {}
    /\ now = 0
    /\ panicked = [n \in {ActorNode} |-> FALSE]
    /\ ticks = 0
    /\ merged = EmptyMap
    /\ leader_views = 0
    /\ qc = QcIdle
    /\ actor = [ActorIdle EXCEPT !.requests = requests, !.budget = budget]

\* the peers send cluster views and heartbeats, MaxRequests RPCs in all
ActorInit == ActorStart(ActorRequests, MaxRequests)

\* the peers send heartbeats, MaxWaiting RPCs more than the inbox can hold
InboxInit == ActorStart({ExchangeHeartbeats(ActorNode, ActorHeartbeats)}, InboxCapacity + MaxWaiting)

\* lib.rs: main_thread has no exit: `loop` has no break, nothing aborts the task,
\* and the JoinHandle that Council holds detaches the task when it is dropped.
\* The task ends only when it panics.
main_thread_is_finished(n) == panicked[n]

\* lib.rs: main_thread, the branch of the gossip interval
ActorTick ==
    /\ Tick(ActorNode)

\* grpc/server.rs: exchange_cluster_views and exchange_heartbeats:
\* `main_thread_message_sender.send(..).await` puts the message into the inbox when
\* it has room, waits for room when it is full, and fails when the receiver is
\* gone, which the RPC answers with Status::unavailable
ExchangeRpc(m) ==
    /\ actor.budget > 0
    /\ m \in actor.requests
    /\ actor' = IF main_thread_is_finished(ActorNode)
                THEN [actor EXCEPT !.budget = @ - 1, !.unavailable = @ + 1]
                ELSE IF Len(actor.inbox) < InboxCapacity /\ actor.waiting = << >>
                THEN [actor EXCEPT !.budget = @ - 1, !.inbox = Append(@, m)]
                ELSE [actor EXCEPT !.budget = @ - 1, !.waiting = Append(@, m)]
    /\ UNCHANGED << cluster, network, now, panicked, ticks, merged, leader_views, qc >>

\* the send of a waiting RPC completes once the inbox has room
SendCompletes ==
    /\ actor.waiting # << >>
    /\ Len(actor.inbox) < InboxCapacity
    /\ actor' = [actor EXCEPT !.waiting = Tail(@), !.inbox = Append(@, Head(actor.waiting))]
    /\ UNCHANGED << cluster, network, now, panicked, ticks, merged, leader_views, qc >>

\* lib.rs: handle_incoming_cluster_view, had it not notified the subscribers
broadcast_no_cluster_event(a, c) == a

\* lib.rs: handle_incoming_cluster_view, `if cluster_event_sender.receiver_count() > 0`:
\* the event holds a clone of the cluster
broadcast_cluster_event(a, c) ==
    IF a.receivers > 0 THEN [a EXCEPT !.events = Append(@, c)] ELSE a

\* lib.rs: main_thread, the branch of message_receiver.recv(): the task takes the
\* oldest message of the inbox and handles it
ActorReceive ==
    /\ ~main_thread_is_finished(ActorNode)
    /\ actor.inbox # << >>
    /\ LET m == Head(actor.inbox)
           taken == [actor EXCEPT !.inbox = Tail(@)]
           handled == IF m.kind = "cluster_view"
                      THEN handle_incoming_cluster_view(cluster[ActorNode], m.body, now)
                      ELSE handle_incoming_heartbeat_message(cluster[ActorNode], m.body, now)
       IN  /\ cluster' = [cluster EXCEPT ![ActorNode] = handled]
           /\ actor' = IF m.kind = "cluster_view"
                       THEN broadcast_cluster_event(taken, handled)
                       ELSE taken
    /\ UNCHANGED << network, now, panicked, ticks, merged, leader_views, qc >>

\* lib.rs: Council::events: `self.cluster_events_sender.subscribe()`
Subscribe ==
    /\ ~actor.dropped
    /\ actor.receivers < MaxSubscribers
    /\ actor' = [actor EXCEPT !.receivers = @ + 1]
    /\ UNCHANGED << cluster, network, now, panicked, ticks, merged, leader_views, qc >>

\* lib.rs: Drop for Council: the drop writes a log line; the fields of Council are
\* dropped with it, of which the JoinHandle detaches main_thread and the sender is
\* one of several clones
DropCouncil ==
    /\ ~actor.dropped
    /\ actor' = [actor EXCEPT !.dropped = TRUE]
    /\ UNCHANGED << cluster, network, now, panicked, ticks, merged, leader_views, qc >>

\* a runtime whose peers call fewer RPCs than the inbox holds: no send waits
ActorNext ==
    \/ ActorTick
    \/ \E m \in actor.requests : ExchangeRpc(m)
    \/ ActorReceive
    \/ Subscribe
    \/ DropCouncil

InboxNext ==
    \/ ActorNext
    \/ SendCompletes

\* the peers send heartbeats, again and again
ServingInit == ActorStart({ExchangeHeartbeats(ActorNode, ActorHeartbeats)}, 0)

\* grpc/server.rs: exchange_heartbeats, called by a peer on one of its ticks while
\* the inbox has room: the send completes at once
PeerExchangesHeartbeats ==
    /\ ~main_thread_is_finished(ActorNode)
    /\ Len(actor.inbox) < InboxCapacity
    /\ \E m \in actor.requests : actor' = [actor EXCEPT !.inbox = Append(@, m)]
    /\ UNCHANGED << cluster, network, now, panicked, ticks, merged, leader_views, qc >>

\* a runtime whose peers go on gossiping
ServingNext ==
    \/ ActorTick
    \/ PeerExchangesHeartbeats
    \/ ActorReceive
    \/ Subscribe
    \/ DropCouncil

(***************************************************************************)
(* Peer failure: the cluster of three nodes, with a clock that goes on     *)
(* after the last tick for as long as a failure detector still takes      *)
(* node 3 for live. Every node stops ticking in the end; node 3 is the one *)
(* whose failure is observed. No exchange is lost.                         *)
(***************************************************************************)
\* the gossip intervals of all nodes tick at most FailureTicks times
FailureTicks == 4
FailedNode == 3
Observers == Nodes \ {FailedNode}

\* FailureDetector::is_live(id(N3), now) at node n
SeesFailedNodeLive(n, at) ==
    is_live(cluster[n].failure_detector, NodeIdOf(FailedNode), at)

\* a gossip interval ticks once the exchanges of the tick before it are over
FailureTick(n) ==
    /\ network = {}
    /\ ~panicked[n]
    /\ ticks < FailureTicks
    /\ ticks' = ticks + 1
    /\ gossip_interval_tick(n)

FailureTimePasses ==
    /\ network = {}
    /\ \/ now < MaxTime * ClockStep
       \/ \E n \in Observers : SeesFailedNodeLive(n, now)
    /\ now' = now + ClockStep
    /\ UNCHANGED << cluster, network, panicked, ticks, merged, leader_views, qc, actor >>

\* an exchange ends: the three nodes listen, and the destination serves it
ExchangeEnds ==
    \/ \E n \in Nodes, m \in network : ReconcileClusterView(n, m)
    \/ \E n \in Nodes, m \in network : ReconcileHeartbeats(n, m)

FailureNext ==
    \/ \E n \in Nodes : FailureTick(n)
    \/ ExchangeEnds
    \/ FailureTimePasses

(***************************************************************************)
(* Conflict at equal version: nodes 1 and 2 are configured with each       *)
(* other. Before they gossip, each is sent a view of member X (node 3, at  *)
(* whose URL no node listens) by an exchange_cluster_views RPC in the name *)
(* of X: node 1 a view with status Joining, node 2 one with status Up,     *)
(* both at version InjectedVersion. The exchanges of nodes 1 and 2 then    *)
(* run with their responses.                                               *)
(***************************************************************************)
InjectedNodes == {1, 2}
InjectedMember == 3
InjectedVersion == MaxVersion
InjectedStatus == [n \in InjectedNodes |-> IF n = 1 THEN Joining ELSE Up]

InjectedInit ==
    /\ cluster = [n \in InjectedNodes |-> build(NodeIdOf(n), n, InjectedNodes \ {n})]
    /\ network = {}
    /\ now = 0
    /\ panicked = [n \in InjectedNodes |-> FALSE]
    /\ ticks = 0
    /\ merged = EmptyMap
    /\ leader_views = 0
    /\ qc = QcIdle
    /\ actor = ActorIdle

\* node n holds a view of member X
HoldsInjected(n) ==
    NodeIdOf(InjectedMember) \in DOMAIN cluster[n].cluster_view.known_members

\* grpc/server.rs: exchange_cluster_views, then lib.rs: handle_incoming_cluster_view:
\* node n is sent its view of X
Inject(n) ==
    /\ ~HoldsInjected(n)
    /\ ticks = 0
    /\ LET x == NodeIdOf(InjectedMember)
           view == MkMemberView(x, InjectedMember,
                                Some(MkState(InjectedStatus[n], InjectedVersion, 0)))
       IN  cluster' = [cluster EXCEPT ![n] =
               handle_incoming_cluster_view(@, MkPartialClusterView(x, Insert(EmptyMap, x, view)), now)]
    /\ UNCHANGED << network, now, panicked, ticks, merged, leader_views, qc, actor >>

\* lib.rs: main_thread, the branch of the gossip interval, once both views are in
InjectedTick(n) ==
    /\ \A k \in InjectedNodes : HoldsInjected(k)
    /\ ResponseTick(n)

\* Nodes 1 and 2 start no heartbeat exchange with each other: a node that received
\* no view of its own member from the other takes the other for lagging and sends
\* it a partial cluster view (gossip_destinations.rs: select_gossip_destinations).
InjectedNext ==
    \/ \E n \in InjectedNodes : Inject(n)
    \/ \E n \in InjectedNodes : InjectedTick(n)
    \/ \E n \in InjectedNodes, m \in network : ServeClusterViews(n, m)
    \/ \E m \in network : ExchangeCompletes(m)

(***************************************************************************)
(* The same three nodes after node 1 has restarted. Before it stopped it   *)
(* had ticked once and node 3, its configured peer, had handled its view,  *)
(* so node 3 still holds the host at its older generation, with the URL    *)
(* that the restarted node advertises again. node.rs gives the restarted   *)
(* node the same unique_id and a later generation.                         *)
(***************************************************************************)
RestartedNode == 1
EarlierGeneration == 0
StoppedCluster ==
    increment_own_heartbeat(build(MkNodeId(RestartedNode, EarlierGeneration), RestartedNode,
                                  ConfiguredPeerNodes[RestartedNode]))
StoppedView ==
    MkPartialClusterView(StoppedCluster.this_node_id, StoppedCluster.cluster_view.known_members)

RestartInit ==
    /\ cluster = [n \in Nodes |->
                     IF n \in ConfiguredPeerNodes[RestartedNode] \ {RestartedNode}
                     THEN handle_incoming_cluster_view(
                              build(NodeIdOf(n), n, ConfiguredPeerNodes[n]), StoppedView, 0)
                     ELSE build(NodeIdOf(n), n, ConfiguredPeerNodes[n])]
    /\ network = {}
    /\ now = 0
    /\ panicked = [n \in Nodes |-> FALSE]
    /\ ticks = 0
    /\ merged = EmptyMap
    /\ leader_views = 0
    /\ qc = QcIdle
    /\ actor = ActorIdle

\* lib.rs: handle_incoming_cluster_view, `debug_assert_ne!(incoming_node_id,
\* cluster.this_node_id, ..)`: the view comes from the node itself
receives_view_from_itself(c, incoming_cluster_view) ==
    incoming_cluster_view.this_node_id = c.this_node_id

(***************************************************************************)
(* The inputs of the MemberView property tests (views.rs, mod tests):      *)
(* quickcheck draws any status, version and heartbeat; the tests then give *)
(* every view the same id. The drawn versions include the largest u16.     *)
(***************************************************************************)
TestId == MkNodeId(1, 1)
TestVersions == (0..MaxVersion) \cup {U16Max}
TestHeartbeats == 0..MaxHeartbeat
TestStates ==
    {None} \cup
    {Some(MkState(st, v, hb)) : st \in NodeStatus, v \in TestVersions, hb \in TestHeartbeats}
TestMemberViews == {MkMemberView(TestId, 1, s) : s \in TestStates}

MemberViewInit ==
    /\ SystemIdle
    /\ qc \in {[test |-> "drawn", a |-> x, b |-> y, c |-> z] :
                x \in TestMemberViews, y \in TestMemberViews, z \in TestMemberViews}

\* views.rs: member_view_merge_is_associative
member_view_merge_is_associative ==
    /\ qc.test = "drawn"
    /\ qc' = [test |-> "associative", a |-> qc.a, b |-> qc.b, c |-> qc.c,
              lhs |-> merge(merge(qc.a, qc.b), qc.c),
              rhs |-> merge(qc.a, merge(qc.b, qc.c))]
    /\ UNCHANGED sysvars

\* views.rs: member_view_merge_is_commutative
member_view_merge_is_commutative ==
    /\ qc.test = "drawn"
    /\ qc' = [test |-> "commutative", a |-> qc.a, b |-> qc.b, c |-> qc.c,
              lhs |-> merge(qc.a, qc.b),
              rhs |-> merge(qc.b, qc.a)]
    /\ UNCHANGED sysvars

\* views.rs: member_view_merge_is_idempotent
member_view_merge_is_idempotent ==
    /\ qc.test = "drawn"
    /\ qc' = [test |-> "idempotent", a |-> qc.a, b |-> qc.b, c |-> qc.c,
              lhs |-> merge(qc.a, qc.b),
              rhs |-> merge(merge(qc.a, qc.b), qc.b)]
    /\ UNCHANGED sysvars

MemberViewNext ==
    \/ member_view_merge_is_associative
    \/ member_view_merge_is_commutative
    \/ member_view_merge_is_idempotent

(***************************************************************************)
(* The inputs of the ClusterView property tests (views.rs, mod tests):     *)
(* `Arbitrary for ClusterView` builds version_vector and heartbeats from   *)
(* the drawn members; `Arbitrary for PartialClusterView` keys each drawn   *)
(* member by its id. The views hold TestId with any drawn state, and a     *)
(* partial view may hold a second member, OtherTestId.                     *)
(***************************************************************************)
OtherTestId == MkNodeId(2, 1)
OtherTestViews == {MkMemberView(OtherTestId, 2, Some(MkState(Joining, 1, 0)))}

\* the members of a drawn cluster view: nobody, or TestId with any drawn state
TestKnownMembers ==
    {EmptyMap} \cup {Insert(EmptyMap, TestId, v) : v \in TestMemberViews}
\* the members of a drawn partial view: those, with or without OtherTestId
TestMembers ==
    TestKnownMembers \cup {Insert(m, OtherTestId, o) : m \in TestKnownMembers, o \in OtherTestViews}

from_members(members) ==
    MkClusterView(members,
                  [k \in DOMAIN members |-> version_or_0(members[k])],
                  [k \in DOMAIN members |-> heartbeat_or_0(members[k])])

ClusterViewInit ==
    /\ SystemIdle
    /\ qc \in {[test |-> "drawn", cluster_view |-> from_members(s),
             a |-> MkPartialClusterView(OtherTestId, x),
             b |-> MkPartialClusterView(OtherTestId, y)] :
                s \in TestKnownMembers, x \in TestMembers, y \in TestMembers}

\* views.rs: cluster_view_merge_is_commutative. The test merges a and then b on
\* both of its sides; the two sides here are the two orders of arrival.
cluster_view_merge_is_commutative ==
    /\ qc.test = "drawn"
    /\ qc' = [test |-> "commutative", cluster_view |-> qc.cluster_view, a |-> qc.a, b |-> qc.b,
              lhs |-> merge_partial_cluster_view(merge_partial_cluster_view(qc.cluster_view, qc.a), qc.b),
              rhs |-> merge_partial_cluster_view(merge_partial_cluster_view(qc.cluster_view, qc.b), qc.a)]
    /\ UNCHANGED sysvars

\* views.rs: cluster_view_merge_is_idempotent
cluster_view_merge_is_idempotent ==
    /\ qc.test = "drawn"
    /\ qc' = [test |-> "idempotent", cluster_view |-> qc.cluster_view, a |-> qc.a, b |-> qc.b,
              lhs |-> merge_partial_cluster_view(qc.cluster_view, qc.b),
              rhs |-> merge_partial_cluster_view(merge_partial_cluster_view(qc.cluster_view, qc.b), qc.b)]
    /\ UNCHANGED sysvars

ClusterViewNext ==
    \/ cluster_view_merge_is_commutative
    \/ cluster_view_merge_is_idempotent

(***************************************************************************)
(* A host that restarts: node.rs gives it the same unique_id (the hash of  *)
(* its URL) and a later generation. A cluster view that holds the host at  *)
(* one generation merges a partial view, sent by another node, that holds  *)
(* the host at a generation that may differ.                               *)
(***************************************************************************)
TestGenerations == {1, 2}
RestartedViews ==
    {MkMemberView(MkNodeId(1, g), 1, s) : g \in TestGenerations, s \in TestStates}

GenerationInit ==
    /\ SystemIdle
    /\ qc \in {[test |-> "drawn",
                resident |-> x,
                incoming |-> y,
                cluster_view |-> from_members(Insert(EmptyMap, x.id, x)),
                a |-> MkPartialClusterView(OtherTestId, Insert(EmptyMap, y.id, y))] :
                   x \in RestartedViews, y \in RestartedViews}

\* views.rs: ClusterView::merge_partial_cluster_view on the drawn views
merge_restarted_member ==
    /\ qc.test = "drawn"
    /\ qc' = [qc EXCEPT !.test = "cluster_view"] @@
             [lhs |-> merge_partial_cluster_view(qc.cluster_view, qc.a)]
    /\ UNCHANGED sysvars

GenerationNext ==
    merge_restarted_member

(***************************************************************************)
(* The property tests of version_vector.rs: `Arbitrary for VersionVector`  *)
(* draws any map from NodeId to u16. The drawn vectors hold TestId and     *)
(* OtherTestId, each absent or at any drawn version.                       *)
(***************************************************************************)
TestNodeIds == {TestId, OtherTestId}
TestVersionVectors ==
    UNION {[keys -> TestVersions] : keys \in SUBSET TestNodeIds}

VersionVectorInit ==
    /\ SystemIdle
    /\ qc \in {[test |-> "drawn", a |-> x, b |-> y, c |-> z, node_id |-> k, version |-> v] :
                x \in TestVersionVectors, y \in TestVersionVectors, z \in TestVersionVectors,
                k \in TestNodeIds, v \in TestVersions}

\* design document, section 8, property 1: merge is associative
version_vector_merge_is_associative ==
    /\ qc.test = "drawn"
    /\ qc' = [qc EXCEPT !.test = "associative"] @@
             [lhs |-> version_vector_merge(version_vector_merge(qc.a, qc.b), qc.c),
              rhs |-> version_vector_merge(qc.a, version_vector_merge(qc.b, qc.c))]
    /\ UNCHANGED sysvars

\* design document, section 8, property 2: merge is commutative
version_vector_merge_is_commutative ==
    /\ qc.test = "drawn"
    /\ qc' = [qc EXCEPT !.test = "commutative"] @@
             [lhs |-> version_vector_merge(qc.a, qc.b),
              rhs |-> version_vector_merge(qc.b, qc.a)]
    /\ UNCHANGED sysvars

\* design document, section 8, property 3: merge is idempotent
version_vector_merge_is_idempotent ==
    /\ qc.test = "drawn"
    /\ qc' = [qc EXCEPT !.test = "idempotent"] @@
             [lhs |-> version_vector_merge(qc.a, qc.b),
              rhs |-> version_vector_merge(version_vector_merge(qc.a, qc.b), qc.b)]
    /\ UNCHANGED sysvars

\* version_vector.rs: test_version_vector_record_version, with a drawn node id and
\* a drawn version
test_version_vector_record_version ==
    /\ qc.test = "drawn"
    /\ qc' = [qc EXCEPT !.test = "record_version"] @@
             [lhs |-> record_version(qc.a, qc.node_id, qc.version),
              rhs |-> qc.a]
    /\ UNCHANGED sysvars

\* version_vector.rs: test_version_vector_offset_identical
test_version_vector_offset_identical ==
    /\ qc.test = "drawn"
    /\ qc' = [qc EXCEPT !.test = "offset_identical"] @@
             [lhs |-> behind_lhs(qc.a, qc.a),
              rhs |-> {}]
    /\ UNCHANGED sysvars

VersionVectorNext ==
    \/ version_vector_merge_is_associative
    \/ version_vector_merge_is_commutative
    \/ version_vector_merge_is_idempotent
    \/ test_version_vector_record_version
    \/ test_version_vector_offset_identical

(***************************************************************************)
(* failure_detector.rs: a FailureDetector on its own, as the unit tests    *)
(* of the file drive a FailureDetectorMember: the detector of TestId is    *)
(* new, and record_heartbeat is called for its peers with heartbeats that  *)
(* are older than, equal to and newer than the stored one, by one, by      *)
(* about the size of the window, by more than it, and by 2^32 and more.    *)
(* qc.at is Instant::now(); qc.call is the last call, with the members the *)
(* detector held before it, and qc.panicked tells that it panicked, after  *)
(* which the detector is gone with its thread.                             *)
(***************************************************************************)
DetectorPeers == {OtherTestId}
DetectorHeartbeats ==
    {MkU64(0, low) : low \in {0, 1, 2, 100, 102}}
        \cup {MkU64(1, low) : low \in {102, 103}}

DetectorInit ==
    /\ SystemIdle
    /\ qc = [test |-> "failure_detector", members |-> EmptyMap, at |-> 0,
             panicked |-> FALSE, call |-> None]

\* a call of record_heartbeat, with the members it found
DetectorCall(node_id, last_heartbeat) ==
    [node_id |-> node_id, last_heartbeat |-> last_heartbeat, before |-> qc.members]

\* FailureDetector::record_heartbeat(node_id, last_heartbeat)
record_heartbeat_call(node_id, last_heartbeat) ==
    /\ qc.test = "failure_detector"
    /\ ~qc.panicked
    /\ IF fd_record_heartbeat_panics(qc.members, node_id, last_heartbeat)
       THEN qc' = [qc EXCEPT !.panicked = TRUE,
                             !.call = Some(DetectorCall(node_id, last_heartbeat))]
       ELSE qc' = [qc EXCEPT !.members = fd_record_heartbeat(@, node_id, last_heartbeat, qc.at),
                             !.call = Some(DetectorCall(node_id, last_heartbeat))]
    /\ UNCHANGED sysvars

\* Instant::now() moves on between two calls
DetectorTimePasses ==
    /\ qc.test = "failure_detector"
    /\ ~qc.panicked
    /\ qc.at < MaxTime * ClockStep
    /\ qc' = [qc EXCEPT !.at = @ + ClockStep, !.call = None]
    /\ UNCHANGED sysvars

DetectorNext ==
    \/ \E node_id \in DetectorPeers, last_heartbeat \in DetectorHeartbeats :
           record_heartbeat_call(node_id, last_heartbeat)
    \/ DetectorTimePasses

(***************************************************************************)
(* The views that carry observed_by. cluster.rs: has_converged reads       *)
(* `state.observed_by`; the MemberViewState with that field, its merge,    *)
(* ClusterView::merge_member_view(this_node_id, incoming), the handler     *)
(* that calls it and the selection of K destinations follow the design     *)
(* document (its sections 3, 4.2, 4.3, 4.5 and 4.6).                       *)
(***************************************************************************)
MkObservedState(st, v, hb, obs) ==
    [node_status |-> st, version |-> v, heartbeat |-> hb, observed_by |-> obs]

\* MemberView merge with observed_by
merge_observed(self_, incoming) ==
    IF incoming.id.generation > self_.id.generation
    THEN incoming
    ELSE IF incoming.id.generation = self_.id.generation
    THEN IF self_.state = None /\ IsSome(incoming.state)
         THEN [self_ EXCEPT !.state = incoming.state]
         ELSE IF IsSome(self_.state) /\ IsSome(incoming.state)
         THEN LET self_state == Unwrap(self_.state)
                  incoming_state == Unwrap(incoming.state)
                  hb == Max(self_state.heartbeat, incoming_state.heartbeat)
              IN  IF incoming_state.version > self_state.version
                  THEN [self_ EXCEPT !.state =
                            Some(MkObservedState(incoming_state.node_status, incoming_state.version,
                                                 hb, incoming_state.observed_by))]
                  ELSE IF incoming_state.version < self_state.version
                  THEN [self_ EXCEPT !.state =
                            Some(MkObservedState(self_state.node_status, self_state.version,
                                                 hb, self_state.observed_by))]
                  ELSE IF self_state.node_status # incoming_state.node_status
                  THEN [self_ EXCEPT !.state =
                            Some(MkObservedState(
                                     Max(self_state.node_status, incoming_state.node_status),
                                     (self_state.version + 1) % U16Modulus,
                                     hb, self_state.observed_by))]
                  ELSE [self_ EXCEPT !.state =
                            Some(MkObservedState(
                                     self_state.node_status, self_state.version, hb,
                                     self_state.observed_by \cup incoming_state.observed_by))]
         ELSE self_
    ELSE self_

\* ClusterView::merge_member_view(this_node_id, incoming)
merge_member_view(cv, this_node_id, incoming) ==
    LET merged_view == IF incoming.id \in DOMAIN cv.known_members
                       THEN merge_observed(cv.known_members[incoming.id], incoming)
                       ELSE incoming
    IN  IF IsSome(merged_view.state)
        THEN LET state == Unwrap(merged_view.state)
                 observed == [state EXCEPT !.observed_by = @ \cup {this_node_id}]
             IN  MkClusterView(
                     Insert(cv.known_members, incoming.id, [merged_view EXCEPT !.state = Some(observed)]),
                     record_version(cv.version_vector, incoming.id, state.version),
                     Insert(cv.heartbeats, incoming.id, state.heartbeat))
        ELSE MkClusterView(Insert(cv.known_members, incoming.id, merged_view),
                           cv.version_vector, cv.heartbeats)

\* the Cluster a node starts with; `observers` is the observed_by of its own view
build_observed(this_node_id, this_node_advertised_url, configured_peer_nodes, observers) ==
    LET c == build(this_node_id, this_node_advertised_url, configured_peer_nodes)
        this_node == c.cluster_view.known_members[this_node_id]
        state == Unwrap(this_node.state)
    IN  [c EXCEPT !.cluster_view.known_members =
            Insert(@, this_node_id,
                   [this_node EXCEPT !.state =
                       Some(MkObservedState(state.node_status, state.version,
                                            state.heartbeat, observers))])]

\* has_converged, had it not asked the failure detector about the members
has_converged_ignoring_liveness(c, at) ==
    /\ c.unknwon_peer_nodes = {}
    /\ \A id \in DOMAIN c.cluster_view.known_members :
           LET member == c.cluster_view.known_members[id]
           IN  /\ IsSome(member.state)
               /\ Unwrap(member.state).observed_by = DOMAIN c.cluster_view.known_members

(***************************************************************************)
(* cluster.rs: Cluster::has_converged; `at` is Instant::now().             *)
(***************************************************************************)
has_converged(c, at) ==
    LET all_members_ids == DOMAIN c.cluster_view.known_members
        all_members_are_live_and_converged ==
            \A id \in DOMAIN c.cluster_view.known_members :
                LET member == c.cluster_view.known_members[id]
                    member_is_live ==
                        member.id = c.this_node_id \/ is_live(c.failure_detector, member.id, at)
                    member_observed_all_states ==
                        IF IsSome(member.state)
                        THEN Unwrap(member.state).observed_by = all_members_ids
                        ELSE FALSE
                IN  member_is_live /\ member_observed_all_states
    IN  c.unknwon_peer_nodes = {} /\ all_members_are_live_and_converged

(***************************************************************************)
(* The ReconcileClusterView handler of the design document, section 4.6;   *)
(* reconcile_member is its loop for one member.                            *)
(***************************************************************************)
reconcile_member(c, incoming_node_id, member, at) ==
    LET c1 == IF member.id = incoming_node_id
              THEN [c EXCEPT !.unknwon_peer_nodes = @ \ {member.advertised_addr}]
              ELSE c
        c2 == IF member.id # c.this_node_id /\ IsSome(member.state)
              THEN [c1 EXCEPT !.failure_detector =
                        fd_record_heartbeat(@, member.id, AsU64(Unwrap(member.state).heartbeat), at)]
              ELSE c1
    IN  [c2 EXCEPT !.cluster_view = merge_member_view(@, c.this_node_id, member)]

RECURSIVE reconcile_members(_, _, _, _, _)
reconcile_members(c, incoming_node_id, members, todo, at) ==
    IF todo = {}
    THEN c
    ELSE LET k == CHOOSE x \in todo : TRUE
         IN  reconcile_members(reconcile_member(c, incoming_node_id, members[k], at),
                               incoming_node_id, members, todo \ {k}, at)

reconcile_cluster_view(c, incoming, at) ==
    reconcile_members(c, incoming.this_node_id, incoming.members, DOMAIN incoming.members, at)

\* the snapshot of known_members a tick sends and a handler replies with
snapshot(c) == MkPartialClusterView(c.this_node_id, c.cluster_view.known_members)

\* design document, section 4.5: the number of destinations of a tick
K == 3

(***************************************************************************)
(* Design document, section 4.5: the sets of destination URLs a tick can   *)
(* select: the unknown peers first (never the local URL), up to K, then a  *)
(* random sample of the URLs of the other known members.                   *)
(***************************************************************************)
gossip_destinations(c) ==
    LET unknown_urls == c.unknwon_peer_nodes \ {c.this_advertised_url}
        member_urls == {c.cluster_view.known_members[k].advertised_addr :
                            k \in DOMAIN c.cluster_view.known_members \ {c.this_node_id}}
    IN  UNION {
          { unknown \cup sample :
              sample \in {s \in SUBSET member_urls :
                             Cardinality(s) = Min(K - Cardinality(unknown), Cardinality(member_urls))} }
          : unknown \in {u \in SUBSET unknown_urls :
                            Cardinality(u) = Min(K, Cardinality(unknown_urls))} }

\* an exchange of cluster views; reply_to is the URL of the node that started it,
\* None on the view that comes back
Exchange(url, view, reply_to) ==
    [kind |-> "cluster_view", url |-> url, body |-> view, reply_to |-> reply_to]

(***************************************************************************)
(* Two Council instances whose views carry observed_by, each configured    *)
(* with the other as its peer. An external leader, which is not a member,  *)
(* drives the status of the members: the view it gossips reports a member  *)
(* as Up at the version at which the member started as Joining.            *)
(***************************************************************************)
ObservedNodes == {1, 2}
ObservedPeerNodes == [n \in ObservedNodes |-> ObservedNodes \ {n}]
LeaderUrl == 9
LeaderId == MkNodeId(LeaderUrl, Generation)
LeaderStatuses == {Up}
LeaderView(k, status) ==
    MkPartialClusterView(
        LeaderId,
        Insert(EmptyMap, NodeIdOf(k),
               MkMemberView(NodeIdOf(k), k, Some(MkObservedState(status, 1, 0, {LeaderId})))))

\* the (member, version) pairs of a node's view
held(c) ==
    {<< k, Unwrap(c.cluster_view.known_members[k].state).version >> :
        k \in {x \in DOMAIN c.cluster_view.known_members :
                  IsSome(c.cluster_view.known_members[x].state)}}

\* a node's own view starts observed by nobody or by the node itself
ObservedInit ==
    /\ \E own_observer \in BOOLEAN :
          cluster = [n \in ObservedNodes |->
                        build_observed(NodeIdOf(n), n, ObservedPeerNodes[n],
                                       IF own_observer THEN {NodeIdOf(n)} ELSE {})]
    /\ network = {}
    /\ now = 0
    /\ panicked = [n \in ObservedNodes |-> FALSE]
    /\ ticks = 0
    /\ merged = [n \in ObservedNodes |-> held(cluster[n])]
    /\ leader_views = 0
    /\ qc = QcIdle
    /\ actor = ActorIdle

\* Tick: the node increments its heartbeat and sends a snapshot of known_members
\* to each destination it selects; the exchange with a URL where no node of the
\* cluster listens fails at once
observed_tick(n) ==
    /\ IF can_increment_own_heartbeat(cluster[n])
       THEN LET c == increment_own_heartbeat(cluster[n])
            IN  /\ \E destinations \in gossip_destinations(c) :
                      network' = network \cup
                          {Exchange(url, snapshot(c), Some(c.this_advertised_url)) :
                              url \in destinations \cap ObservedNodes}
                /\ cluster' = [cluster EXCEPT ![n] = c]
                /\ UNCHANGED panicked
       ELSE /\ panicked' = [panicked EXCEPT ![n] = TRUE]
            /\ UNCHANGED << cluster, network >>
    /\ UNCHANGED << now, merged, leader_views, qc, actor >>

\* the tick of node n, at most MaxTicks times over all nodes
ObservedTick(n) ==
    /\ ~panicked[n]
    /\ ticks < MaxTicks
    /\ ticks' = ticks + 1
    /\ observed_tick(n)

\* ReconcileClusterView: the node merges a received view; when the view came with
\* a reply channel, the node's snapshot goes back to the node that started the
\* exchange, which reconciles it in turn. An exchange that fails leaves its view
\* unmerged, as does one that is not served yet.
ObservedReconcile(n, m) ==
    /\ m \in network
    /\ m.url = n
    /\ ~panicked[n]
    /\ LET c == reconcile_cluster_view(cluster[n], m.body, now)
       IN  /\ cluster' = [cluster EXCEPT ![n] = c]
           /\ merged' = [merged EXCEPT ![n] = @ \cup held(c)]
           /\ network' = (network \ {m}) \cup
                  (IF IsSome(m.reply_to) THEN {Exchange(Unwrap(m.reply_to), snapshot(c), None)} ELSE {})
    /\ UNCHANGED << now, panicked, ticks, leader_views, qc, actor >>

\* ReconcileClusterView of a view sent by the leader
LeaderExchange(n, k, status) ==
    /\ leader_views < MaxLeaderViews
    /\ leader_views' = leader_views + 1
    /\ ~panicked[n]
    /\ LET c == reconcile_cluster_view(cluster[n], LeaderView(k, status), now)
       IN  /\ cluster' = [cluster EXCEPT ![n] = c]
           /\ merged' = [merged EXCEPT ![n] = @ \cup held(c)]
    /\ UNCHANGED << network, now, panicked, ticks, qc, actor >>

ObservedNext ==
    \/ \E n \in ObservedNodes : ObservedTick(n)
    \/ \E n \in ObservedNodes, m \in network : ObservedReconcile(n, m)
    \/ TimePasses

\* the two nodes and the views of the leader
ConflictNext ==
    \/ \E n \in ObservedNodes : ObservedTick(n)
    \/ \E n \in ObservedNodes, m \in network : ObservedReconcile(n, m)
    \/ \E n \in ObservedNodes, k \in ObservedNodes, status \in LeaderStatuses :
           LeaderExchange(n, k, status)
    \/ TimePasses

(***************************************************************************)
(* Design document, section 8, scenario 10: the two-node bootstrap. The    *)
(* two nodes of ObservedInit tick once per gossip interval, the first time *)
(* at once, and no message is lost: every exchange started in an interval  *)
(* is served, and its reply reconciled, before the interval ends.          *)
(***************************************************************************)
BootstrapTicks == 3

BootstrapTick(n) ==
    /\ ~panicked[n]
    /\ TicksOf(n) < BootstrapTicks
    /\ now = TicksOf(n) * ClockStep
    /\ ticks' = ticks + 1
    /\ observed_tick(n)

\* the gossip interval passes once both nodes have ticked and nothing is on its way
IntervalPasses ==
    /\ network = {}
    /\ \A n \in ObservedNodes : now < TicksOf(n) * ClockStep
    /\ now < (BootstrapTicks - 1) * ClockStep
    /\ now' = now + ClockStep
    /\ UNCHANGED << cluster, network, panicked, ticks, merged, leader_views, qc, actor >>

BootstrapNext ==
    \/ \E n \in ObservedNodes : BootstrapTick(n)
    \/ \E n \in ObservedNodes, m \in network : ObservedReconcile(n, m)
    \/ IntervalPasses

vars == << cluster, network, now, panicked, ticks, merged, leader_views, qc, actor >>

\* the cluster of three nodes
Spec == Init /\ [][Next]_vars

\* the cluster of three nodes, over one more tick
LongSpec == Init /\ [][LongNext]_vars

\* the cluster of three nodes, one of them with six configured peers
FanoutSpec == FanoutInit /\ [][Next]_vars

\* the cluster of two nodes whose views carry observed_by
ObservedSpec == ObservedInit /\ [][ObservedNext]_vars

\* the same two nodes, receiving the views of a leader
ConflictSpec == ObservedInit /\ [][ConflictNext]_vars

\* the property tests of MemberView::merge
MemberViewSpec == MemberViewInit /\ [][MemberViewNext]_vars

\* the property tests of ClusterView::merge_partial_cluster_view
ClusterViewSpec == ClusterViewInit /\ [][ClusterViewNext]_vars

\* the cluster of three nodes, with the responses of the exchanges
ResponseSpec == Init /\ [][ResponseNext]_vars

\* the two-node bootstrap
BootstrapSpec == ObservedInit /\ [][BootstrapNext]_vars

\* the two clusters that are joined
PartitionSpec == PartitionInit /\ [][PartitionNext]_vars

\* the merges of the views of a restarted host
GenerationSpec == GenerationInit /\ [][GenerationNext]_vars

\* the property tests of the version vector
VersionVectorSpec == VersionVectorInit /\ [][VersionVectorNext]_vars

\* the runtime of one node, called by its peers
ActorSpec == ActorInit /\ [][ActorNext]_vars

\* the runtime of one node, with a scheduler that runs every task that can run and
\* peers that go on gossiping
ActorFairSpec ==
    /\ ServingInit
    /\ [][ServingNext]_vars
    /\ WF_vars(ActorTick)
    /\ WF_vars(ActorReceive)
    /\ WF_vars(PeerExchangesHeartbeats)

\* the runtime of one node whose peers call more RPCs than its inbox holds
InboxSpec == InboxInit /\ [][InboxNext]_vars

\* the cluster of three nodes, with exchanges that end and a clock that does not stop
FailureSpec ==
    /\ Init
    /\ [][FailureNext]_vars
    /\ WF_vars(ExchangeEnds)
    /\ WF_vars(FailureTimePasses)

\* the two nodes that hold conflicting views of a third member
InjectedSpec == InjectedInit /\ [][InjectedNext]_vars

\* a failure detector on its own, called with drawn heartbeats
DetectorSpec == DetectorInit /\ [][DetectorNext]_vars

\* the three nodes after the restart of one of them
RestartSpec == RestartInit /\ [][Next]_vars

\* the three nodes where no exchange completes; a node whose interval has elapsed
\* ticks and a request that has arrived is handled
WaitingSpec ==
    /\ Init
    /\ [][WaitingNext]_vars
    /\ WF_vars(\E n \in Nodes : ResponseTick(n))
    /\ WF_vars(\E n \in Nodes, m \in network : ServeClusterViews(n, m) \/ ServeHeartbeats(n, m))

(***************************************************************************)
(* Claims about MemberView::merge, checked under MemberViewSpec.           *)
(***************************************************************************)
\* C1: MemberView.merge is associative: for all views a, b, c with the same id,
\* merging b into a and then c gives the same view as merging c into b and then
\* that result into a.
C1_MergeAssociative ==
    qc.test = "associative" => qc.lhs = qc.rhs

\* C3: MemberView.merge is commutative: for all views a and b with the same id,
\* merging b into a gives the same view as merging a into b.
C3_MergeCommutative ==
    qc.test = "commutative" => qc.lhs = qc.rhs

\* C4: MemberView.merge is idempotent: for all views a and b with the same id,
\* once b has been merged into a, merging b again leaves the result unchanged.
C4_MergeIdempotent ==
    qc.test = "idempotent" => qc.lhs = qc.rhs

(***************************************************************************)
(* Claims about ClusterView::merge_partial_cluster_view, checked under     *)
(* ClusterViewSpec.                                                        *)
(***************************************************************************)
\* C2: ClusterView merge is commutative: for every cluster view s and any two
\* incoming views a and b, merging a then b into s yields the same known_members,
\* version_vector and heartbeats as merging b then a.
C2_ClusterMergeCommutative ==
    qc.test = "commutative" => qc.lhs = qc.rhs

\* C5: ClusterView merge is idempotent: for every cluster view s and incoming view
\* a, merging a into s twice yields the same known_members, version_vector and
\* heartbeats as merging it once.
C5_ClusterMergeIdempotent ==
    qc.test = "idempotent" => qc.lhs = qc.rhs

(***************************************************************************)
(* Claims about the ClusterView of a running node, checked under Spec.     *)
(***************************************************************************)
\* C6: in every reachable state of a node, for every NodeId k of known_members
\* whose state is present, version_vector[k] is that state's version and
\* heartbeats[k] is that state's heartbeat.
C6_ProjectionsMatchState ==
    \A n \in DOMAIN cluster :
        LET cv == cluster[n].cluster_view
        IN  \A k \in DOMAIN cv.known_members :
                IsSome(cv.known_members[k].state) =>
                    /\ k \in DOMAIN cv.version_vector
                    /\ cv.version_vector[k] = Unwrap(cv.known_members[k].state).version
                    /\ k \in DOMAIN cv.heartbeats
                    /\ cv.heartbeats[k] = Unwrap(cv.known_members[k].state).heartbeat

\* a node that has ticked, has merged another member from a cluster view and has
\* recorded the heartbeats of a heartbeat message
C6_Witness ==
    \E n \in DOMAIN cluster :
        LET c == cluster[n]
            cv == c.cluster_view
        IN  /\ Unwrap(cv.known_members[c.this_node_id].state).heartbeat >= 1
            /\ \E k \in DOMAIN cv.known_members :
                   /\ k # c.this_node_id
                   /\ IsSome(cv.known_members[k].state)
                   /\ Unwrap(cv.known_members[k].state).heartbeat >= 1
            /\ \E k \in DOMAIN cv.heartbeats : k \notin DOMAIN cv.known_members

\* C7: in every reachable state of a node, the keys of version_vector and the keys
\* of heartbeats are keys of known_members.
C7_KeysAreKnownMembers ==
    \A n \in DOMAIN cluster :
        LET cv == cluster[n].cluster_view
        IN  /\ DOMAIN cv.version_vector \subseteq DOMAIN cv.known_members
            /\ DOMAIN cv.heartbeats \subseteq DOMAIN cv.known_members

\* C8: in every reachable state of a node, known_members holds this_node_id with
\* its state present, and no tick has panicked in increment_own_heartbeat.
C8_OwnMemberHasState ==
    \A n \in DOMAIN cluster :
        /\ can_increment_own_heartbeat(cluster[n])
        /\ ~panicked[n]

\* a node that has been sent its own member in a cluster view, has merged the rest
\* of that view, and has ticked since
C8_Witness ==
    \E n \in DOMAIN cluster :
        LET c == cluster[n]
            cv == c.cluster_view
        IN  /\ Cardinality(DOMAIN cv.known_members) = Cardinality(Nodes)
            /\ c.unknwon_peer_nodes = {}
            /\ c.peer_nodes # {}
            /\ Unwrap(cv.known_members[c.this_node_id].state).heartbeat >= 1

C10_ObserversMergedThatVersion ==
    \A p \in DOMAIN cluster :
        LET members == cluster[p].cluster_view.known_members
        IN  \A m \in DOMAIN members :
                IsSome(members[m].state) =>
                    \A n \in Unwrap(members[m].state).observed_by :
                        \A q \in DOMAIN cluster :
                            cluster[q].this_node_id = n =>
                                << m, Unwrap(members[m].state).version >> \in merged[q]

(***************************************************************************)
(* Claims about the versions and heartbeats a node stores over time.       *)
(***************************************************************************)
\* the version and the heartbeat of member k in the view of a node, when it has a state
StoredState(c, k) == Unwrap(c.cluster_view.known_members[k].state)
HasState(c, k) ==
    /\ k \in DOMAIN c.cluster_view.known_members
    /\ IsSome(c.cluster_view.known_members[k].state)

\* C14: for every node n and every member id m, neither the heartbeat in n's
\* known_members[m].state nor the entry heartbeats[m] ever decreases, whatever the
\* ticks and the ReconcileClusterView and ReconcileHeartbeats messages, also when a
\* state is first adopted for a member whose heartbeat was already recorded.
C14_HeartbeatsNeverDecrease ==
    [][\A n \in DOMAIN cluster :
          /\ \A k \in DOMAIN cluster[n].cluster_view.heartbeats :
                 /\ k \in DOMAIN cluster'[n].cluster_view.heartbeats
                 /\ cluster'[n].cluster_view.heartbeats[k] >= cluster[n].cluster_view.heartbeats[k]
          /\ \A k \in DOMAIN cluster[n].cluster_view.known_members :
                 HasState(cluster[n], k) =>
                     /\ HasState(cluster'[n], k)
                     /\ StoredState(cluster'[n], k).heartbeat >= StoredState(cluster[n], k).heartbeat]_vars

\* C13: for every node n and every member id m of a fixed generation, the version
\* that n's view stores for m never decreases, whatever views the node merges: the
\* version of a member after merge_partial_cluster_view is at least the version
\* the view held before.
C13_VersionNeverDecreases ==
    qc.test \in {"commutative", "idempotent"} =>
        \A k \in DOMAIN qc.cluster_view.known_members :
            IsSome(qc.cluster_view.known_members[k].state) =>
                /\ k \in DOMAIN qc.lhs.known_members
                /\ IsSome(qc.lhs.known_members[k].state)
                /\ Unwrap(qc.lhs.known_members[k].state).version
                       >= Unwrap(qc.cluster_view.known_members[k].state).version
                /\ qc.lhs.version_vector[k] >= qc.cluster_view.version_vector[k]

\* C24: the core never deletes a member: for every node, the key set of
\* known_members only grows over any sequence of ticks and messages, and a member's
\* state, once present, never becomes absent.
C24_MembersAreNeverDeleted ==
    [][\A n \in DOMAIN cluster :
          \A k \in DOMAIN cluster[n].cluster_view.known_members :
              /\ k \in DOMAIN cluster'[n].cluster_view.known_members
              /\ HasState(cluster[n], k) => HasState(cluster'[n], k)]_vars

\* a node holds every member with a state, after its view has grown by the members
\* of a cluster view and it has ticked and recorded the heartbeats of another node
C24_Witness ==
    \E n \in DOMAIN cluster :
        /\ DOMAIN cluster[n].cluster_view.known_members = {NodeIdOf(k) : k \in Nodes}
        /\ \A k \in DOMAIN cluster[n].cluster_view.known_members : HasState(cluster[n], k)
        /\ StoredState(cluster[n], cluster[n].this_node_id).heartbeat >= 1
        /\ \E k \in DOMAIN cluster[n].cluster_view.known_members :
               /\ k # cluster[n].this_node_id
               /\ StoredState(cluster[n], k).heartbeat >= 1

(***************************************************************************)
(* Claims about has_converged and the failure detector.                    *)
(***************************************************************************)
\* C11: has_converged() is false in every state where unknown_peer_nodes is not
\* empty or where some known member other than this node is not live for the
\* failure detector; it stays false while a peer that stopped is a known member.
C11_NotConvergedWithoutLiveness ==
    \A n \in DOMAIN cluster :
        LET c == cluster[n]
        IN  (\/ c.unknwon_peer_nodes # {}
             \/ \E k \in DOMAIN c.cluster_view.known_members :
                    k # c.this_node_id /\ ~is_live(c.failure_detector, k, now))
            => ~has_converged(c, now)

\* a node that knows every peer, whose members are all observed by all members,
\* and that has heard nothing for a while from a member whose heartbeats it has
\* timed: only the failure detector keeps has_converged() false
C11_Witness ==
    \E n \in DOMAIN cluster :
        LET c == cluster[n]
            members == c.cluster_view.known_members
        IN  /\ c.unknwon_peer_nodes = {}
            /\ Cardinality(DOMAIN members) > 1
            /\ \A k \in DOMAIN members :
                   /\ IsSome(members[k].state)
                   /\ Unwrap(members[k].state).observed_by = DOMAIN members
            /\ \E k \in DOMAIN members :
                   /\ k # c.this_node_id
                   /\ k \in DOMAIN c.failure_detector
                   /\ has_stats(c.failure_detector[k])
                   /\ now > c.failure_detector[k].last_heartbeat_received_at
                   /\ ~is_live(c.failure_detector, k, now)
            /\ ~has_converged(c, now)

\* C12: the liveness predicate of the failure detector is the same across its API:
\* for every tracked member m, is_live(m, now) holds exactly when live_members(now)
\* lists m and unreachable_members(now) does not, and a member that has no phi yet
\* (no interval recorded) is live for all three.
C12_LivenessApiConsistent ==
    \A n \in DOMAIN cluster :
        LET fd == cluster[n].failure_detector
        IN  \A m \in DOMAIN fd :
                /\ is_live(fd, m, now) <=>
                       (m \in live_members(fd, now) /\ m \notin unreachable_members(fd, now))
                /\ phi(fd[m], now) = None =>
                       /\ is_live(fd, m, now)
                       /\ m \in live_members(fd, now)
                       /\ m \notin unreachable_members(fd, now)

\* the heartbeat of the failed node that the failure detector of node n holds
FailedHeartbeatAt(c) ==
    IF NodeIdOf(FailedNode) \in DOMAIN c.failure_detector
    THEN c.failure_detector[NodeIdOf(FailedNode)].last_heartbeat.low
    ELSE 0

\* C22: peer failure: in the 3-node cluster, once N3 has stopped ticking,
\* is_live(id(N3)) eventually becomes false at N1 and at N2 and stays false; a step
\* that leaves N3's heartbeat unchanged at a node, such as the gossip of N3's last
\* heartbeat between N1 and N2, never makes N3 live again there.
C22_FailedPeerIsDetected ==
    /\ <>[](\A n \in Observers : ~SeesFailedNodeLive(n, now))
    /\ [][\A n \in Observers :
            (/\ ~SeesFailedNodeLive(n, now)
             /\ FailedHeartbeatAt(cluster'[n]) = FailedHeartbeatAt(cluster[n]))
                => ~is_live(cluster'[n].failure_detector, NodeIdOf(FailedNode), now')]_vars

\* both observers have measured the heartbeat interval of N3, hold its last heartbeat
\* and no longer take it for live, after N3 has ticked twice and time has passed
C22_Witness ==
    /\ StoredState(cluster[FailedNode], NodeIdOf(FailedNode)).heartbeat >= 2
    /\ \A n \in Observers :
        /\ NodeIdOf(FailedNode) \in DOMAIN cluster[n].failure_detector
        /\ has_stats(cluster[n].failure_detector[NodeIdOf(FailedNode)])
        /\ FailedHeartbeatAt(cluster[n]) = StoredState(cluster[FailedNode], NodeIdOf(FailedNode)).heartbeat
        /\ now > cluster[n].failure_detector[NodeIdOf(FailedNode)].last_heartbeat_received_at
        /\ ~SeesFailedNodeLive(n, now)

(***************************************************************************)
(* Claims about the exchanges a node starts.                               *)
(***************************************************************************)
\* the node whose gossip interval ticks in this step
Ticks(n) ==
    /\ ticks' = ticks + 1
    /\ cluster'[n] # cluster[n]

\* C15, as the code has it: on every tick a node dispatches at most
\* GOSSIP_DESTINATIONS_SAMPLE_SIZE = 5 gossip exchanges in total, the exchanges
\* of cluster views with unknown peers and with known members and the exchanges
\* of heartbeats together.
C15_AtMostSampleSizeExchanges ==
    [][\A n \in DOMAIN cluster :
          Ticks(n) =>
              \A selection \in gossip_selections(cluster'[n]) :
                  exchange_count(selection) <= GOSSIP_DESTINATIONS_SAMPLE_SIZE]_vars

\* C15: on every tick a node dispatches at most K = 3 gossip exchanges in total
\* (seed/unknown-peer exchanges plus known-member exchanges of any kind).
C15_AtMostThreeExchanges ==
    [][\A n \in DOMAIN cluster :
          Ticks(n) =>
              \A selection \in gossip_selections(cluster'[n]) :
                  exchange_count(selection) <= K]_vars

\* a node that has ticked, has more unknown peers and known members than the sample
\* size, and selects exactly as many destinations as the sample size
C15_Witness ==
    \E n \in DOMAIN cluster :
        LET c == cluster[n]
        IN  /\ Unwrap(c.cluster_view.known_members[c.this_node_id].state).heartbeat >= 1
            /\ Cardinality(c.unknwon_peer_nodes) + Cardinality(DOMAIN c.cluster_view.known_members) - 1
                   > GOSSIP_DESTINATIONS_SAMPLE_SIZE
            /\ Cardinality(DOMAIN c.cluster_view.known_members) > 1
            /\ \A selection \in gossip_selections(c) :
                   exchange_count(selection) = GOSSIP_DESTINATIONS_SAMPLE_SIZE

\* the node that built the body of an exchange of ResponseSpec: the caller for a
\* request, the called node for a response
SenderOf(m) == IF m.stage = "request" THEN m.from ELSE m.url

C18_ResponseReachesInbox ==
    [][\A r \in network \ network' :
          r.stage = "response" =>
              \E m \in network' :
                  /\ m.stage = "inbox"
                  /\ m.url = r.from
                  /\ m.kind = r.kind
                  /\ m.body = r.body]_vars

\* the URLs that the cluster view of message m reveals: the advertised URL of the
\* member whose id is the id of the sender of the view
SenderUrls(m) ==
    {m.body.members[k].advertised_addr :
        k \in {x \in DOMAIN m.body.members : m.body.members[x].id = m.body.this_node_id}}

\* the cluster views that node n processes in this step
ProcessedBy(n) ==
    {m \in network \ network' :
        m.kind = "cluster_view" /\ m.url = n /\ cluster'[n] # cluster[n]}

\* C17: unknown_peer_nodes starts as the configured seed URLs minus the local URL,
\* is always a subset of peer_nodes, never gains an element, and loses a URL exactly
\* when a reconciled view whose sender id matches a member with that advertised URL
\* is processed.
C17_UnknownPeerNodesOnlyShrink ==
    /\ \A n \in DOMAIN cluster :
           cluster[n].unknwon_peer_nodes = ConfiguredPeerNodes[n] \ {cluster[n].this_advertised_url}
    /\ [](\A n \in DOMAIN cluster : cluster[n].unknwon_peer_nodes \subseteq cluster[n].peer_nodes)
    /\ [][\A n \in DOMAIN cluster :
             LET before == cluster[n].unknwon_peer_nodes
                 after == cluster'[n].unknwon_peer_nodes
             IN  /\ after \subseteq before
                 /\ \A url \in before \ after :
                        \E m \in ProcessedBy(n) : url \in SenderUrls(m)
                 /\ \A m \in ProcessedBy(n) : after \cap SenderUrls(m) = {}]_vars

\* one node has lost its seed URL to a view sent by that seed, and another node has
\* merged a view that its seed did not send and still has its seed URL
C17_Witness ==
    \E n1, n2 \in DOMAIN cluster :
        /\ cluster[n1].peer_nodes # {}
        /\ cluster[n1].unknwon_peer_nodes = {}
        /\ \A url \in cluster[n1].peer_nodes :
               \E k \in DOMAIN cluster[n1].cluster_view.known_members :
                   cluster[n1].cluster_view.known_members[k].advertised_addr = url
        /\ Cardinality(DOMAIN cluster[n2].cluster_view.known_members) > 1
        /\ cluster[n2].unknwon_peer_nodes = cluster[n2].peer_nodes
        /\ cluster[n2].peer_nodes # {}

(***************************************************************************)
(* The convergence scenarios.                                              *)
(***************************************************************************)
\* both nodes have ticked `count` times and every exchange has been served and
\* its reply reconciled
BootstrapDone(count) ==
    /\ \A n \in ObservedNodes : TicksOf(n) = count
    /\ network = {}

KeysOf(n) == DOMAIN cluster[n].cluster_view.known_members
IdsOf(nodes) == {NodeIdOf(k) : k \in nodes}

\* `count` gossip intervals have ended: every node has ticked `count` times at
\* least and the exchanges of those ticks have been served
IntervalsEnded(count) ==
    \/ now >= count * ClockStep
    \/ /\ now = (count - 1) * ClockStep
       /\ \A n \in PartitionNodes : TicksOf(n) = count
       /\ network = {}

\* C20: partition healing: if two separately converged clusters {N1,N2} and {N3,N4}
\* are joined by giving N1 the URL of N3 as a seed, then under fair ticking and
\* reliable delivery all four nodes hold the identical known_members key set
\* containing all four ids within 10 ticks: while node 1 cannot reach node 3 each
\* cluster comes to know its own two nodes only, and once node 1 can reach node 3,
\* three ticks of each node are enough.
C20_PartitionHeals ==
    /\ IntervalsEnded(PartitionIntervals) /\ now < PartitionIntervals * ClockStep =>
           /\ \A n \in {1, 2} : KeysOf(n) = IdsOf({1, 2})
           /\ \A n \in {3, 4} : KeysOf(n) = IdsOf({3, 4})
           /\ cluster[1].unknwon_peer_nodes = {3}
    /\ IntervalsEnded(PartitionIntervals + 3) =>
           \A n \in PartitionNodes : KeysOf(n) = IdsOf(PartitionNodes)

\* the partition has healed, and the last node to learn of the other cluster has
\* done so in the third gossip interval since
C20_Witness ==
    /\ now = (PartitionIntervals + 2) * ClockStep
    /\ \A n \in PartitionNodes : KeysOf(n) = IdsOf(PartitionNodes)
    /\ \E n \in PartitionNodes : TicksOf(n) < PartitionIntervals + 3

\* the state of member X in the view of node n
InjectedStateAt(n) == StoredState(cluster[n], NodeIdOf(InjectedMember))

\* C21: conflict at equal version: N1 holds member X at version v with status Joining
\* and N2 holds X at version v with status Up; once a gossip round-trip between N1
\* and N2 is over (the exchanges that were started have been served and their
\* responses have come back), both hold X at version v+1 with status Up.
C21_ConflictConvergesInOneRoundTrip ==
    (/\ \A n \in InjectedNodes : HoldsInjected(n)
     /\ ticks >= 1
     /\ network = {})
        => \A n \in InjectedNodes :
               /\ InjectedStateAt(n).node_status = Up
               /\ InjectedStateAt(n).version = InjectedVersion + 1

(***************************************************************************)
(* Claims about the cases of MemberView::merge, checked under              *)
(* MemberViewSpec on the merge of the drawn view b into the drawn view a.  *)
(***************************************************************************)
\* qc.lhs is merge(a, b), and both drawn views have a state
MergedWithStates ==
    /\ qc.test \in {"commutative", "idempotent"}
    /\ IsSome(qc.a.state)
    /\ IsSome(qc.b.state)

\* C30: equal-version conflict rule: merging an incoming MemberView into a resident
\* one with the same id, both states present, equal version v and different
\* statuses sets the resident version to v+1, the status to the higher-priority of
\* the two and the heartbeat to the maximum of the two; with equal version and
\* equal status the version and status are unchanged and the heartbeat becomes the
\* maximum of the two.
C30_EqualVersionRule ==
    MergedWithStates /\ Unwrap(qc.a.state).version = Unwrap(qc.b.state).version =>
        LET resident == Unwrap(qc.a.state)
            incoming == Unwrap(qc.b.state)
            heartbeat == Max(resident.heartbeat, incoming.heartbeat)
        IN  /\ qc.lhs.id = qc.a.id
            /\ qc.lhs.state =
                   IF resident.node_status # incoming.node_status
                   THEN Some(MkState(Max(resident.node_status, incoming.node_status),
                                     resident.version + 1, heartbeat))
                   ELSE Some(MkState(resident.node_status, resident.version, heartbeat))

\* C29: the Down status is final within a generation: once a view holds member m
\* with status Down, merging a view with the same id leaves m's status Down.
C29_DownIsFinal ==
    MergedWithStates /\ Unwrap(qc.a.state).node_status = Down =>
        /\ IsSome(qc.lhs.state)
        /\ Unwrap(qc.lhs.state).node_status = Down

\* C23: generation supersession: when a node that holds a record for a host
\* (unique_id u, generation g) reconciles a MemberView for the same unique_id u with
\* a higher generation g' > g, its view afterwards holds only the generation-g'
\* record for u; when the incoming generation is lower than the resident one, the
\* incoming view is discarded and the cluster view is unchanged.
C23_GenerationSupersedes ==
    qc.test = "cluster_view" =>
        /\ qc.incoming.id.generation > qc.resident.id.generation =>
               /\ DOMAIN qc.lhs.known_members = {qc.incoming.id}
               /\ qc.lhs.known_members[qc.incoming.id] = qc.incoming
        /\ qc.incoming.id.generation < qc.resident.id.generation =>
               qc.lhs = qc.cluster_view

(***************************************************************************)
(* Claims about the version vector, checked under VersionVectorSpec.       *)
(***************************************************************************)
\* the larger of the versions two vectors hold for k, where either may lack k
PointwiseMax(a, b, k) ==
    IF k \notin DOMAIN a THEN b[k]
    ELSE IF k \notin DOMAIN b THEN a[k]
    ELSE Max(a[k], b[k])

\* C28: VersionVector merge is the point-wise maximum: for all vectors a, b, c,
\* merge is associative, commutative and idempotent, record_version(k, v) never
\* lowers the entry for k, and VersionVectorOffset.of(v, v).behind_lhs is empty for
\* every v.
C28_VersionVectorMerge ==
    /\ qc.test \in {"associative", "commutative", "idempotent"} => qc.lhs = qc.rhs
    /\ qc.test = "commutative" =>
           /\ DOMAIN qc.lhs = DOMAIN qc.a \cup DOMAIN qc.b
           /\ \A k \in DOMAIN qc.lhs : qc.lhs[k] = PointwiseMax(qc.a, qc.b, k)
    /\ qc.test = "record_version" =>
           /\ qc.node_id \in DOMAIN qc.lhs
           /\ qc.lhs[qc.node_id] >= qc.version
           /\ qc.node_id \in DOMAIN qc.a => qc.lhs[qc.node_id] >= qc.a[qc.node_id]
           /\ \A k \in DOMAIN qc.a \ {qc.node_id} : qc.lhs[k] = qc.a[k]
    /\ qc.test = "offset_identical" => qc.lhs = {}

\* two vectors have been merged that each hold a newer version than the other
\* for one of the nodes
C28_Witness ==
    /\ qc.test = "commutative"
    /\ DOMAIN qc.a = TestNodeIds
    /\ DOMAIN qc.b = TestNodeIds
    /\ qc.a[TestId] < qc.b[TestId]
    /\ qc.a[OtherTestId] > qc.b[OtherTestId]
    /\ qc.lhs = [k \in TestNodeIds |-> Max(qc.a[k], qc.b[k])]


\* C25: back-pressure: the inbox of the actor never holds more than 20 messages, and
\* when it is full an incoming exchange RPC gets an error on send, surfaced to the
\* caller as 'unavailable', rather than waiting for space: no RPC ever waits.
C25_FullInboxIsUnavailable ==
    /\ Len(actor.inbox) <= 20
    /\ actor.waiting = << >>

\* C26: shutdown: after the embedder drops the instance handle, the actor loop
\* eventually terminates: main_thread finishes, and with it the ticks and the
\* dispatch of gossip.
C26_DroppedActorTerminates ==
    actor.dropped ~> main_thread_is_finished(ActorNode)

\* the member statuses of the view of the modelled node
StatusesOf(c) ==
    [k \in {x \in DOMAIN c.cluster_view.known_members : IsSome(c.cluster_view.known_members[x].state)} |->
        Unwrap(c.cluster_view.known_members[k].state).node_status]

\* C27: whenever processing a message changes the membership status of any member in
\* the node's view and at least one event subscriber exists, a ClusterEvent carrying a
\* snapshot of the post-change cluster is broadcast within the handling of that
\* message; with no subscribers nothing is sent and the merge still takes effect.
C27_StatusChangeIsBroadcast ==
    [][/\ (StatusesOf(cluster'[ActorNode]) # StatusesOf(cluster[ActorNode]) /\ actor.receivers > 0)
            => actor'.events = Append(actor.events, cluster'[ActorNode])
       /\ (actor.receivers = 0 /\ actor.inbox # << >> /\ actor'.inbox = Tail(actor.inbox))
            => /\ actor'.events = actor.events
               /\ cluster'[ActorNode] =
                      IF Head(actor.inbox).kind = "cluster_view"
                      THEN handle_incoming_cluster_view(cluster[ActorNode], Head(actor.inbox).body, now)
                      ELSE handle_incoming_heartbeat_message(cluster[ActorNode], Head(actor.inbox).body, now)]_vars

\* a subscriber exists, and the last of two events holds node 3 with status Up after
\* the event before it held it with status Joining
C27_Witness ==
    /\ actor.receivers > 0
    /\ Len(actor.events) >= 2
    /\ actor.events[Len(actor.events)] = cluster[ActorNode]
    /\ StatusesOf(actor.events[Len(actor.events)])[NodeIdOf(3)] = Up
    /\ StatusesOf(actor.events[Len(actor.events) - 1])[NodeIdOf(3)] = Joining


\* C40: the +1 version bump applied on an equal-version status conflict always yields
\* a version strictly greater than both merged versions within the unsigned 16-bit
\* range, for every version from 0 to 65535: it never wraps around.
C40_BumpIsStrictlyGreater ==
    (/\ MergedWithStates
     /\ Unwrap(qc.a.state).version = Unwrap(qc.b.state).version
     /\ Unwrap(qc.a.state).node_status # Unwrap(qc.b.state).node_status)
        => /\ IsSome(qc.lhs.state)
           /\ Unwrap(qc.lhs.state).version > Unwrap(qc.a.state).version
           /\ Unwrap(qc.lhs.state).version <= U16Max

(***************************************************************************)
(* Claims about the node's own heartbeat and about the failure detector of *)
(* a running node.                                                         *)
(***************************************************************************)
OwnHeartbeat(c) == Unwrap(c.cluster_view.known_members[c.this_node_id].state).heartbeat
OwnHeartbeatEntry(c) == c.cluster_view.heartbeats[c.this_node_id]

RECURSIVE SumOfOwnHeartbeats(_, _)
SumOfOwnHeartbeats(cl, todo) ==
    IF todo = {}
    THEN 0
    ELSE LET n == CHOOSE x \in todo : TRUE
         IN  OwnHeartbeat(cl[n]) + SumOfOwnHeartbeats(cl, todo \ {n})

\* C31: a node's own heartbeat is incremented by exactly one on each of its ticks
\* and by nothing else: in every step heartbeats[this_node_id] and
\* known_members[this_node_id].state.heartbeat both grow by one when the step is a
\* tick of the node and are unchanged otherwise (a ReconcileClusterView or
\* ReconcileHeartbeats message never changes them), so that the own heartbeats of
\* the nodes add up to the number of ticks taken.
C31_OwnHeartbeatCountsTicks ==
    [][/\ \A n \in Nodes :
            LET by == IF Ticks(n) THEN 1 ELSE 0
            IN  /\ OwnHeartbeat(cluster'[n]) = OwnHeartbeat(cluster[n]) + by
                /\ OwnHeartbeatEntry(cluster'[n]) = OwnHeartbeatEntry(cluster[n]) + by
                /\ OwnHeartbeatEntry(cluster'[n]) = OwnHeartbeat(cluster'[n])
       /\ SumOfOwnHeartbeats(cluster', Nodes) = ticks']_vars

\* a node that has ticked twice and has merged the state of a peer, while that peer
\* still holds the node's state with the heartbeat of its first tick: the peer's
\* views and heartbeat messages mention the node's id with an older heartbeat
C31_Witness ==
    \E n \in Nodes, p \in Nodes :
        /\ p # n
        /\ OwnHeartbeat(cluster[n]) = 2
        /\ HasState(cluster[n], NodeIdOf(p))
        /\ StoredState(cluster[n], NodeIdOf(p)).heartbeat >= 1
        /\ HasState(cluster[p], NodeIdOf(n))
        /\ StoredState(cluster[p], NodeIdOf(n)).heartbeat = 1

\* C34: the failure detector never tracks the local node: over every incoming view
\* and heartbeat message, those that mention this node's id included,
\* record_heartbeat is never called with this_node_id, the only way into the map,
\* so the members of a node's failure detector never contain this_node_id.
C34_DetectorNeverTracksItself ==
    \A n \in DOMAIN cluster :
        cluster[n].this_node_id \notin DOMAIN cluster[n].failure_detector

\* a node whose failure detector tracks both of its peers at a heartbeat of one or
\* more, while both peers hold the node's state: their views and heartbeat messages
\* mention the node
C34_Witness ==
    \E n \in Nodes :
        \A p \in Nodes \ {n} :
            /\ NodeIdOf(p) \in DOMAIN cluster[n].failure_detector
            /\ cluster[n].failure_detector[NodeIdOf(p)].last_heartbeat.low >= 1
            /\ HasState(cluster[p], NodeIdOf(n))
            /\ NodeIdOf(n) \in DOMAIN cluster[p].cluster_view.heartbeats
            /\ cluster[p].cluster_view.heartbeats[NodeIdOf(n)] >= 1

\* C38: for every known member other than this node whose state is present, the
\* failure detector has an entry, and the entry's last_heartbeat equals the
\* heartbeat in the member's state in the cluster view.
C38_DetectorMatchesView ==
    \A n \in DOMAIN cluster :
        LET c == cluster[n]
        IN  \A k \in DOMAIN c.cluster_view.known_members :
                (k # c.this_node_id /\ HasState(c, k)) =>
                    /\ k \in DOMAIN c.failure_detector
                    /\ c.failure_detector[k].last_heartbeat = AsU64(StoredState(c, k).heartbeat)

(***************************************************************************)
(* Claims about the order in which a tick selects its destinations.        *)
(***************************************************************************)
\* the number of known members a selection gossips with, by a partial view or by
\* heartbeats
known_members_selected(selection) ==
    Cardinality(selection.exchanged) + Cardinality(selection.chosen)

\* C32, as the code has it: seeds are contacted first. On a tick, a known member is
\* selected as a gossip destination only if every unknown seed URL was selected and
\* they were fewer than GOSSIP_DESTINATIONS_SAMPLE_SIZE = 5, and the number of known
\* members selected is at most 5 minus the number of unknown seed URLs selected.
C32_SeedsFirstWithinSampleSize ==
    [][\A n \in DOMAIN cluster :
          Ticks(n) =>
              \A selection \in gossip_selections(cluster'[n]) :
                  /\ known_members_selected(selection) > 0 =>
                         /\ selection.unknown = cluster'[n].unknwon_peer_nodes
                         /\ Cardinality(selection.unknown) < GOSSIP_DESTINATIONS_SAMPLE_SIZE
                  /\ known_members_selected(selection)
                         <= GOSSIP_DESTINATIONS_SAMPLE_SIZE - Cardinality(selection.unknown)]_vars

\* C32: seeds are contacted first: on a tick, a known member is selected as a gossip
\* destination only if fewer than K = 3 unknown seed URLs were selected, and the
\* number of known members selected is at most K minus the number of unknown seed
\* URLs selected.
C32_SeedsFirstWithinThree ==
    [][\A n \in DOMAIN cluster :
          Ticks(n) =>
              \A selection \in gossip_selections(cluster'[n]) :
                  /\ known_members_selected(selection) > 0 =>
                         Cardinality(selection.unknown) < K
                  /\ known_members_selected(selection) <= K - Cardinality(selection.unknown)]_vars

\* a node that has ticked, with four unknown seeds and two known members, selects the
\* four seeds and only one of the members
C32_Witness ==
    \E n \in DOMAIN cluster :
        LET c == cluster[n]
        IN  /\ Unwrap(c.cluster_view.known_members[c.this_node_id].state).heartbeat >= 1
            /\ Cardinality(c.unknwon_peer_nodes) = 4
            /\ Cardinality(DOMAIN c.cluster_view.known_members) = 3
            /\ \A selection \in gossip_selections(c) :
                   /\ selection.unknown = c.unknwon_peer_nodes
                   /\ known_members_selected(selection) = 1

(***************************************************************************)
(* Claims about FailureDetector::record_heartbeat, checked under           *)
(* DetectorSpec. The last call found the member `stored`, if any.          *)
(***************************************************************************)
CallIsFor(call) == call.node_id \in DOMAIN call.before
StoredBefore(call) == call.before[call.node_id]
CallIsNewer(call) ==
    /\ CallIsFor(call)
    /\ u64_less(StoredBefore(call).last_heartbeat, call.last_heartbeat)

\* count times the interval
Repeat(interval, count) == [i \in 1..count |-> interval]
\* the last n elements of a sequence
LastN(seq, n) == IF Len(seq) <= n THEN seq ELSE SubSeq(seq, Len(seq) - n + 1, Len(seq))

\* C33: FailureDetector.record_heartbeat for a known peer with a heartbeat that is
\* lower than or equal to the stored last_heartbeat is a no-op: last_heartbeat,
\* last_heartbeat_received_at, the window of intervals and with it the mean and the
\* standard deviation, and the minimum and maximum are unchanged, and the call does
\* not fail.
C33_StaleHeartbeatIsNoOp ==
    qc.call # None =>
        LET call == Unwrap(qc.call)
        IN  (CallIsFor(call) /\ ~CallIsNewer(call)) =>
                /\ ~qc.panicked
                /\ qc.members = call.before

\* a peer with a window of intervals, for which a heartbeat below the stored one was
\* recorded some time after the stored one
C33_Witness ==
    /\ qc.call # None
    /\ LET call == Unwrap(qc.call)
       IN  /\ CallIsFor(call)
           /\ u64_less(call.last_heartbeat, StoredBefore(call).last_heartbeat)
           /\ Len(StoredBefore(call).heartbeats_intervals) > 0
           /\ qc.at > StoredBefore(call).last_heartbeat_received_at

\* C37: the window of intervals of a peer never holds more than 100 entries, after
\* any sequence of record_heartbeat calls, a single jump of the heartbeat by more
\* than 100 included, and the oldest entries are evicted first: after a call that
\* records count intervals the window is the last 100 of the old window followed
\* by those intervals.
C37_WindowIsBounded ==
    /\ \A k \in DOMAIN qc.members :
           Len(qc.members[k].heartbeats_intervals) <= HEARTBEAT_INTERVALS_WINDOW_SIZE
    /\ (qc.call # None /\ ~qc.panicked) =>
           LET call == Unwrap(qc.call)
           IN  CallIsNewer(call) =>
                   LET stored == StoredBefore(call)
                       count == Len(qc.members[call.node_id].heartbeats_intervals)
                                    - Len(stored.heartbeats_intervals)
                       pushed == received_heartbeats_since_last_record(stored, call.last_heartbeat)
                       interval == (qc.at - stored.last_heartbeat_received_at) \div pushed
                   IN  /\ count = Min(pushed, HEARTBEAT_INTERVALS_WINDOW_SIZE - Len(stored.heartbeats_intervals))
                       /\ qc.members[call.node_id].heartbeats_intervals =
                              LastN(stored.heartbeats_intervals \o Repeat(interval, pushed),
                                    HEARTBEAT_INTERVALS_WINDOW_SIZE)

\* a heartbeat that jumped by more than 100 was recorded for a peer whose window held
\* an interval of another length: the window is full and the older interval is gone
C37_Witness ==
    /\ qc.call # None
    /\ ~qc.panicked
    /\ LET call == Unwrap(qc.call)
       IN  /\ CallIsNewer(call)
           /\ call.last_heartbeat.high = 0
           /\ call.last_heartbeat.low - StoredBefore(call).last_heartbeat.low
                  > HEARTBEAT_INTERVALS_WINDOW_SIZE
           /\ Len(StoredBefore(call).heartbeats_intervals) > 0
           /\ Len(qc.members[call.node_id].heartbeats_intervals) = HEARTBEAT_INTERVALS_WINDOW_SIZE
           /\ \A i \in 1..HEARTBEAT_INTERVALS_WINDOW_SIZE :
                  qc.members[call.node_id].heartbeats_intervals[i]
                      # StoredBefore(call).heartbeats_intervals[1]

\* the length of the window of a member after one interval was pushed for each of the
\* heartbeats elapsed between the stored heartbeat and a newer one; heartbeats whose
\* high words differ are 2^32 or more apart, which fills the window
LenAfterElapsedHeartbeats(stored, last_heartbeat) ==
    IF last_heartbeat.high = stored.last_heartbeat.high
    THEN Min(HEARTBEAT_INTERVALS_WINDOW_SIZE,
             Len(stored.heartbeats_intervals) + (last_heartbeat.low - stored.last_heartbeat.low))
    ELSE HEARTBEAT_INTERVALS_WINDOW_SIZE

\* C39: for every incoming heartbeat strictly greater than the stored last_heartbeat,
\* any pair of 64-bit values with the difference taken as an unsigned 32-bit count
\* included, record_heartbeat completes without failing, pushes one interval per
\* elapsed heartbeat and sets last_heartbeat to the incoming value.
C39_NewerHeartbeatIsRecorded ==
    qc.call # None =>
        LET call == Unwrap(qc.call)
        IN  CallIsNewer(call) =>
                /\ ~qc.panicked
                /\ qc.members[call.node_id].last_heartbeat = call.last_heartbeat
                /\ Len(qc.members[call.node_id].heartbeats_intervals)
                       = LenAfterElapsedHeartbeats(StoredBefore(call), call.last_heartbeat)

(***************************************************************************)
(* Claims about a restarted node, checked under RestartSpec.               *)
(***************************************************************************)
\* the URLs a selection gossips with
destinations_of(c, selection) ==
    selection.unknown
        \cup {c.cluster_view.known_members[k].advertised_addr : k \in selection.exchanged}
        \cup selection.chosen

\* C35: a node never gossips with itself: no destination a tick selects has the
\* node's own advertised URL, so no node is sent a view of its own and the
\* assertion of handle_incoming_cluster_view never fails, also after a restart
\* where the peers still hold an older generation of this host with the same URL.
C35_NeverGossipsWithItself ==
    /\ [](\A n \in DOMAIN cluster :
             \A m \in network :
                 (m.kind = "cluster_view" /\ m.url = n) =>
                     ~receives_view_from_itself(cluster[n], m.body))
    /\ [][\A n \in DOMAIN cluster :
             Ticks(n) =>
                 \A selection \in gossip_selections(cluster'[n]) :
                     cluster'[n].this_advertised_url
                         \notin destinations_of(cluster'[n], selection)]_vars

(***************************************************************************)
(* Claims about what the actor waits for, checked under WaitingSpec, where *)
(* an exchange stays in `network` until its task ends and nothing makes it *)
(* end.                                                                    *)
(***************************************************************************)
\* C36: the actor never waits for a peer: a tick only spawns its exchanges, so even
\* if no exchange a node started ever completes, the node takes every later tick
\* and handles every request addressed to it; two nodes that picked each other both
\* answer. Every run comes to take all its ticks and to have answered every request.
C36_ActorNeverWaits ==
    <>[](/\ ticks = MaxTicks
         /\ \A m \in network : m.stage = "response")

\* two nodes have each answered an exchange of the other while the exchange they
\* started themselves was under way: both responses are on their way back
C36_Witness ==
    \E m1, m2 \in network :
        /\ m1.stage = "response"
        /\ m2.stage = "response"
        /\ m1.from = m2.url
        /\ m2.from = m1.url
        /\ m1.from # m1.url

====
